---- MODULE Spec2Model ----
(***************************************************************************)
(* A model of python-sync-db (dbsync): client operation log, compression,  *)
(* signed push messages, the server push handler and the client merge.     *)
(*                                                                         *)
(* The module holds several specifications over the same variables:        *)
(*   SpecCompress  the client log under local edits and compress, and the  *)
(*                 application of the log to a receiving store             *)
(*   SpecSign      building, signing, serialising and verifying a push     *)
(*                 message                                                 *)
(*   SpecPush      one push handler of the server, step by step, on any    *)
(*                 message, with cancellation                              *)
(*   Spec          the server and two client nodes from construction on:   *)
(*                 registration, local edits, synchronize with its pushes  *)
(*                 and pulls, and the push handlers step by step           *)
(*   SpecTrack     the change tracker of the client under sessions that    *)
(*                 flush, commit and roll back                             *)
(*   SpecSync      one call of synchronize and what its attempts end with  *)
(*   SpecMerge     merge of a pull message on a store with a foreign key   *)
(*   SpecServer    the push handler together with direct edits of the      *)
(*                 server database                                         *)
(*   SpecHook      the push handler with before-operation hooks            *)
(*   SpecPull      the pull handler of the server                          *)
(*   SpecFilter    the push handler on operations of untracked types       *)
(*   SpecWire      an exception of a handler on its way to the client      *)
(*   SpecPerform   Operation.perform_async on a store                      *)
(*   SpecTxn       procedures run under with_transaction                   *)
(*   SpecDirect    transactions of the application on the server database  *)
(***************************************************************************)
EXTENDS Integers, Sequences, FiniteSets, TLC

VARIABLES
    server,   \* the server database as committed, and its version sequence
    handler,  \* the push handlers of the server, one per connection slot
    cmp,      \* harness of the compression law: sender rows, log, history
    sgn,      \* harness of message signing: node, message, verdict
    client,   \* the client nodes: rows, operation log, versions, sync position
    trk,      \* harness of change tracking: sessions, operations queue, log
    mrg,      \* harness of merge: a local store with foreign keys, a pull message
    syn,      \* harness of synchronize: round, attempts made, outcome
    wire,     \* harness of exception transport: raised, close frame, rebuilt
    prf,      \* harness of perform: a store, the operation performed last
    txn,      \* harness of with_transaction: dialect, foreign keys, last call
    app       \* an application transaction on the server: flushed, rolled back

vars == <<server, handler, cmp, sgn, client, trk, mrg, syn, wire, prf, txn, app>>

----------------------------------------------------------------------------
(* Bounds *)

MaxRow == 2       \* row ids 1..MaxRow
MaxEdits == 3     \* local mutations recorded in one history
MaxSignOps == 2   \* operations of a message in the signing harness
MaxMsgOps == 2    \* operations of a push message sent to the handler
MaxVersion == 3   \* values the server's version id sequence hands out
MaxNodes == 2     \* nodes that register

----------------------------------------------------------------------------
(* Data *)

Null == 0                 \* None / SQL NULL in a version_id or node_id column
Absent == "absent"        \* no row under that primary key
Vals == {"x", "y"}        \* column contents of a row
RowIds == 1 .. MaxRow
Stores == [RowIds -> Vals \cup {Absent}]
EmptyStore == [r \in RowIds |-> Absent]
CtA == "A"                \* content type of the tracked model

\* dbsync.models.Operation: one entry of the operation log.  row is the
\* number of the GUID in row_id, form the Python value that holds it:
\* "uuid" a uuid.UUID (as loaded through the GUID column type), "hex" the
\* string of 32 lowercase hex digits, "dashed" the string str(uuid) gives
Op(row, cmd, ver) ==
    [row |-> row, form |-> "uuid", ct |-> CtA, cmd |-> cmd, ver |-> ver]

\* the server database after construction: no rows, versions, operations
\* or nodes; seq is the last value the version id sequence gave
ServerIdle ==
    [rows |-> EmptyStore, versions |-> {}, ops |-> <<>>, nodes |-> <<>>, seq |-> 0]

NoKey == "None"           \* PushMessage.key is None
NoSecret == "None"        \* PushMessage._secret not set
NewMessage == [node_id |-> Null, secret |-> NoSecret, key |-> NoKey,
               latest |-> Null, ops |-> <<>>, payload |-> EmptyStore]

NoExc == [type |-> "none", reason |-> "none"]
Exc(type, reason) == [type |-> type, reason |-> reason]

\* a connection slot with no push handler running.  peers records the
\* slots whose handler ran at some time while this one did, skipped the
\* positions of the operations for which a hook raised SkipOperation
HIdle ==
    [pc |-> "idle", msg |-> NewMessage, pre |-> ServerIdle, rows |-> EmptyStore,
     idx |-> 1, post |-> <<>>, version |-> Null, result |-> Null,
     sent |-> FALSE, listened |-> FALSE, committed |-> FALSE, exc |-> NoExc,
     peers |-> {}, skipped |-> {}]

Slots == {1, 2}
HandlerIdle == [h \in Slots |-> HIdle]

\* a client node after construction: no Node row, no rows, an empty
\* operation log, no Version.  next is the value the order column gives the
\* next operation; born tells that the node has created its row; pc is the
\* position in synchronize; msg the PushMessage of run_push.
\* quiet, phase, mark and pushed record the history the properties speak
\* of: no local edit since the message was built, a push completed and
\* then a pull, the versions of the server when the push completed, and
\* the pairs (order of an operation carried, new_version_id answered)
NoNode == [node_id |-> Null, secret |-> NoSecret]
CIdle ==
    [node |-> NoNode, rows |-> EmptyStore, log |-> <<>>, next |-> 1,
     born |-> FALSE, versions |-> {}, pc |-> "idle", msg |-> NewMessage,
     round |-> 0, out |-> "none", exc |-> NoExc,
     quiet |-> FALSE, phase |-> "none", mark |-> {}, pushed |-> {}]

Clients == Slots          \* client c pushes on connection slot c
ClientIdle == [c \in Clients |-> CIdle]

\* the tracking harness before it is used: the model is not tracked, no
\* listener is installed, listening is enabled, queue and log are empty
Sessions == {1, 2, 3}     \* sessions 1 and 2 of the application, 3 internal
TrkIdle ==
    [pushed |-> FALSE, pulled |-> FALSE, synched |-> FALSE, listeners |-> 0,
     listening |-> TRUE, queue |-> <<>>, log |-> <<>>,
     buf |-> [s \in Sessions |-> <<>>], next |-> 1,
     done |-> <<>>, committed |-> {}, rolled |-> {}, mixed |-> FALSE,
     skipped |-> {}, hidden |-> {}]

\* synchronize is not running.  pushes and pulls count the attempts of the
\* call, ret is the value returned (-1: none), last the attempt made last
SynIdle ==
    [pc |-> "idle", round |-> 0, out |-> "none", ret |-> -1, exc |-> NoExc,
     pushes |-> 0, pulls |-> 0, last |-> [kind |-> "none", exc |-> NoExc]]

\* no handler has raised: nothing was closed, nothing rebuilt
WireIdle ==
    [pc |-> "idle", ex |-> [type |-> "none", args |-> <<>>], code |-> 1000,
     reason |-> [len |-> 0, cut |-> FALSE, klass |-> "none", args |-> <<>>],
     got |-> NoExc]

\* nothing was performed: n counts the operations performed, before holds
\* the store the last one found, op and payload what it was called with
PrfIdle ==
    [n |-> 0, before |-> EmptyStore, op |-> [row |-> 1, cmd |-> "i", ct |-> CtA],
     payload |-> EmptyStore, rows |-> EmptyStore, took |-> FALSE,
     err |-> FALSE]

\* no procedure was run in a transaction: fk tells whether the connection
\* enforces foreign keys (1) or not (0), last what the last call did
TxnIdle ==
    [dialect |-> "sqlite", fk |-> 1, rows |-> EmptyStore, n |-> 0,
     last |-> [fk |-> 1, raised |-> FALSE, committed |-> FALSE,
               rolled |-> FALSE, closed |-> FALSE]]

\* the application has no transaction open on the server
AppIdle ==
    [open |-> FALSE, rows |-> EmptyStore, held |-> {}, rolled |-> {}]

\* the merge harness before it is used: the local store and the server hold
\* no rows, no operation is logged or pulled; left holds the pairs the
\* conflict lists hold when a merge ends
MrgIdle ==
    [pc |-> "idle", rows |-> <<>>, log |-> <<>>, next |-> 1, versions |-> {},
     srv |-> <<>>, pops |-> <<>>, pre |-> <<>>, exc |-> NoExc, uerr |-> FALSE,
     left |-> {}]

\* the compression harness before it is used; prev holds the log as the
\* last compress found it
CmpIdle ==
    [start |-> EmptyStore, rows |-> EmptyStore, log |-> <<>>, hist |-> <<>>,
     fresh |-> FALSE, applied |-> FALSE, recv |-> EmptyStore,
     comp |-> [rows |-> EmptyStore, err |-> FALSE],
     full |-> [rows |-> EmptyStore, err |-> FALSE], prev |-> <<>>]

----------------------------------------------------------------------------
(* Operation.perform_async: apply one operation to a store, the row        *)
(* values coming from the container message's payload.                     *)
(* Result: the rows after, whether an object was returned (the operation   *)
(* took effect), and whether OperationError was raised.                    *)

PerformResult(rows, took, err) == [rows |-> rows, took |-> took, err |-> err]

\* every content type counts as tracked
tracked_model_any(op) == TRUE

\* core.tracked_model: the operation's content type is one of the models
\* tracked here (A and B of the tests); None otherwise
tracked_model(op) == op.ct \in {"A", "B"}

\* an update that leaves an existing row as it was
perform_async_stale(rows, op, payload) ==
    LET obj == rows[op.row]
        pull_obj == payload[op.row]
    IN  CASE ~tracked_model(op) -> PerformResult(rows, FALSE, TRUE)
          [] op.cmd = "i" ->
               IF pull_obj = Absent THEN PerformResult(rows, FALSE, TRUE)
               ELSE IF obj = Absent
                    THEN PerformResult([rows EXCEPT ![op.row] = pull_obj], TRUE, FALSE)
               ELSE IF obj = pull_obj
                    THEN PerformResult(rows, FALSE, FALSE)
               ELSE PerformResult(rows, FALSE, TRUE)
          [] op.cmd = "u" ->
               IF pull_obj = Absent THEN PerformResult(rows, FALSE, TRUE)
               ELSE IF obj = Absent
                    THEN PerformResult([rows EXCEPT ![op.row] = pull_obj], TRUE, FALSE)
               ELSE PerformResult(rows, TRUE, FALSE)
          [] op.cmd = "d" ->
               IF obj = Absent THEN PerformResult(rows, FALSE, FALSE)
               ELSE PerformResult([rows EXCEPT ![op.row] = Absent], TRUE, FALSE)
          [] OTHER -> PerformResult(rows, FALSE, TRUE)

\* a perform that takes the delete of an absent row for an error
perform_async_strict(rows, op, payload) ==
    LET obj == rows[op.row]
        pull_obj == payload[op.row]
    IN  CASE ~tracked_model(op) -> PerformResult(rows, FALSE, TRUE)
          [] op.cmd = "i" ->
               IF pull_obj = Absent THEN PerformResult(rows, FALSE, TRUE)
               ELSE IF obj = Absent
                    THEN PerformResult([rows EXCEPT ![op.row] = pull_obj], TRUE, FALSE)
               ELSE IF obj = pull_obj
                    THEN PerformResult(rows, FALSE, FALSE)
               ELSE PerformResult(rows, FALSE, TRUE)
          [] op.cmd = "u" ->
               IF pull_obj = Absent THEN PerformResult(rows, FALSE, TRUE)
               ELSE PerformResult([rows EXCEPT ![op.row] = pull_obj], TRUE, FALSE)
          [] op.cmd = "d" ->
               IF obj = Absent THEN PerformResult(rows, FALSE, TRUE)
               ELSE PerformResult([rows EXCEPT ![op.row] = Absent], TRUE, FALSE)
          [] OTHER -> PerformResult(rows, FALSE, TRUE)

perform_async(rows, op, payload) ==
    LET obj == rows[op.row]
        pull_obj == payload[op.row]
    IN  CASE ~tracked_model(op) -> PerformResult(rows, FALSE, TRUE)
          [] op.cmd = "i" ->
               IF pull_obj = Absent THEN PerformResult(rows, FALSE, TRUE)
               ELSE IF obj = Absent
                    THEN PerformResult([rows EXCEPT ![op.row] = pull_obj], TRUE, FALSE)
               ELSE IF obj = pull_obj
                    THEN PerformResult(rows, FALSE, FALSE)
               ELSE PerformResult(rows, FALSE, TRUE)
          [] op.cmd = "u" ->
               IF pull_obj = Absent THEN PerformResult(rows, FALSE, TRUE)
               ELSE PerformResult([rows EXCEPT ![op.row] = pull_obj], TRUE, FALSE)
          [] op.cmd = "d" ->
               IF obj = Absent THEN PerformResult(rows, FALSE, FALSE)
               ELSE PerformResult([rows EXCEPT ![op.row] = Absent], TRUE, FALSE)
          [] OTHER -> PerformResult(rows, FALSE, TRUE)

\* the operations of a message applied in order inside one transaction:
\* an OperationError rolls the store back to where it started
RECURSIVE PerformFrom(_, _, _, _)
PerformFrom(rows, ops, payload, start) ==
    IF ops = <<>> THEN [rows |-> rows, err |-> FALSE]
    ELSE LET res == perform_async(rows, Head(ops), payload)
         IN  IF res.err THEN [rows |-> start, err |-> TRUE]
             ELSE PerformFrom(res.rows, Tail(ops), payload, start)

PerformAll(rows, ops, payload) == PerformFrom(rows, ops, payload, rows)

----------------------------------------------------------------------------
(* dbsync.client.compression: compress                                     *)

NoCmd == "none"

\* the fold table of compress: prior representative, next operation
FoldCmd(prior, next) ==
    CASE prior = NoCmd -> next
      [] prior = "i" /\ next = "u" -> "i"
      [] prior = "i" /\ next = "d" -> NoCmd
      [] prior = "u" /\ next = "u" -> "u"
      [] prior = "u" /\ next = "d" -> "d"
      [] prior = "d" /\ next = "i" -> "u"
      [] OTHER -> next

\* positions of the unversioned operations of one row, in log order
RowPositions(log, row) ==
    {k \in 1 .. Len(log) : log[k].row = row /\ log[k].ver = Null}

\* left fold of the unversioned operations of a row; the representative
\* keeps the position of the first operation of the run it stands for
RECURSIVE FoldRow(_, _, _, _)
FoldRow(log, row, k, acc) ==
    IF k > Len(log) THEN acc
    ELSE IF log[k].row = row /\ log[k].ver = Null
         THEN LET c == FoldCmd(acc.cmd, log[k].cmd)
              IN  FoldRow(log, row, k + 1,
                          [cmd |-> c,
                           pos |-> IF acc.cmd = NoCmd THEN k ELSE acc.pos])
         ELSE FoldRow(log, row, k + 1, acc)

Representative(log, row) == FoldRow(log, row, 1, [cmd |-> NoCmd, pos |-> 0])

\* the log entry that stays at position k after compress, or nothing
RECURSIVE CompressFrom(_, _)
CompressFrom(log, k) ==
    IF k > Len(log) THEN <<>>
    ELSE LET o == log[k]
             rep == Representative(log, o.row)
             rest == CompressFrom(log, k + 1)
         IN  IF o.ver # Null THEN <<o>> \o rest
             ELSE IF rep.cmd # NoCmd /\ rep.pos = k
                  THEN <<[o EXCEPT !.cmd = rep.cmd]>> \o rest
             ELSE rest

compress(log) == CompressFrom(log, 1)

\* every operation of the log, versioned or not
Unversioned_any(log) == log

\* the unversioned operations, the one logged last first
RECURSIVE Unversioned_newest_first(_)
Unversioned_newest_first(log) ==
    IF log = <<>> THEN <<>>
    ELSE Unversioned_newest_first(Tail(log)) \o
             (IF Head(log).ver = Null THEN <<Head(log)>> ELSE <<>>)

\* PushMessage.add_unversioned_operations: the operations a push carries
RECURSIVE Unversioned(_)
Unversioned(log) ==
    IF log = <<>> THEN <<>>
    ELSE IF Head(log).ver = Null THEN <<Head(log)>> \o Unversioned(Tail(log))
         ELSE Unversioned(Tail(log))

----------------------------------------------------------------------------
(* dbsync.messages.push: the signature of a push message                   *)

Secrets == {"k1", "k2"}   \* values of Node.secret

\* str(uuid): the GUID as a string with dashes
dashedstr(op) == [op EXCEPT !.form = IF @ = "uuid" THEN "dashed" ELSE @]

\* codecs.uuidstr through SyncdbJSONEncoder: a uuid.UUID leaves the process
\* as its 32 lowercase hex digits
uuidstr(op) == [op EXCEPT !.form = IF @ = "uuid" THEN "hex" ELSE @]

\* the text _portion writes for the row_id of an operation
RowText(op) ==
    CASE op.form = "uuid" -> "0x" \o ToString(op.row)
      [] op.form = "hex" -> "0x" \o ToString(op.row)
      [] OTHER -> "0x-" \o ToString(op.row)

\* PushMessage._portion
RECURSIVE Portion(_)
Portion(ops) ==
    IF ops = <<>> THEN ""
    ELSE "&" \o RowText(Head(ops)) \o "#" \o Head(ops).ct \o "#" \o Head(ops).cmd
         \o Portion(Tail(ops))

\* hashlib.sha512(text).hexdigest(), taken as free of collisions
Sha512(text) == "sha512:" \o text

\* PushMessage._sign
Sign(msg) ==
    IF msg.secret # NoSecret
    THEN [msg EXCEPT !.key = Sha512(msg.secret \o Portion(msg.ops))]
    ELSE msg

\* PushMessage.set_node, node a row of the nodes table or Null
set_node(msg, node) ==
    IF node.node_id = Null THEN msg
    ELSE Sign([msg EXCEPT !.node_id = node.node_id, !.secret = node.secret])

\* PushMessage.add_unversioned_operations, unversioned the operations the
\* query for version_id == None returned
add_unversioned_operations(msg, unversioned) ==
    LET filled == [msg EXCEPT !.ops = unversioned]
    IN  IF msg.key # NoKey THEN Sign(filled) ELSE filled

RECURSIVE MapOps(_)
MapOps(ops) ==
    IF ops = <<>> THEN <<>> ELSE <<uuidstr(Head(ops))>> \o MapOps(Tail(ops))

\* PushMessage.to_json, json.dumps with SyncdbJSONEncoder, json.loads and
\* PushMessage(raw_data): _secret does not travel
Rebuilt(msg) == [msg EXCEPT !.ops = MapOps(@), !.secret = NoSecret]

\* PushMessage.islegit against the nodes table of the session:
\* "True", "False", or "LookupError" when it raises
islegit(nodes, msg) ==
    IF msg.key = NoKey \/ msg.node_id = Null THEN "False"
    ELSE IF msg.node_id \notin DOMAIN nodes THEN "LookupError"
    ELSE IF msg.key = Sha512(nodes[msg.node_id] \o Portion(msg.ops))
         THEN "True" ELSE "False"

----------------------------------------------------------------------------
(* SpecSign: a client builds a push message from its unversioned           *)
(* operations and its node, in either order; the message may go through    *)
(* JSON, its key may be replaced, and islegit is evaluated.                *)

sgnOthers == <<server, handler, cmp, client, trk, mrg, syn, wire, prf, txn, app>>

SgnIdle ==
    [nodes |-> <<>>, unversioned |-> <<>>, msg |-> NewMessage,
     first |-> "none", has_node |-> FALSE, has_ops |-> FALSE,
     wired |-> FALSE, tampered |-> FALSE, checked |-> FALSE, legit |-> "False"]

SignCmds == {"i", "u", "d"}
SignOps == {Op(r, c, Null) : r \in RowIds, c \in SignCmds}
SignOpSeqs == UNION {[1 .. n -> SignOps] : n \in 0 .. MaxSignOps}

\* the nodes table holds nodes 1 and 2 with their secrets; the log holds
\* some unversioned operations
SgnInit ==
    /\ \E s1, s2 \in Secrets, ops \in SignOpSeqs :
          sgn = [SgnIdle EXCEPT !.nodes = <<s1, s2>>, !.unversioned = ops]
    /\ cmp = CmpIdle
    /\ server = ServerIdle
    /\ handler = HandlerIdle
    /\ client = ClientIdle
    /\ trk = TrkIdle
    /\ mrg = MrgIdle
    /\ syn = SynIdle
    /\ wire = WireIdle
    /\ prf = PrfIdle
    /\ txn = TxnIdle
    /\ app = AppIdle

\* message.set_node(node), node the client's row of the nodes table
SgnSetNode(n) ==
    /\ ~sgn.has_node /\ ~sgn.wired
    /\ sgn' = [sgn EXCEPT
                 !.msg = set_node(@, [node_id |-> n, secret |-> sgn.nodes[n]]),
                 !.has_node = TRUE,
                 !.first = IF @ = "none" THEN "node" ELSE @]
    /\ UNCHANGED sgnOthers

\* message.add_unversioned_operations(session)
SgnAddOps ==
    /\ ~sgn.has_ops /\ ~sgn.wired
    /\ sgn' = [sgn EXCEPT
                 !.msg = add_unversioned_operations(@, sgn.unversioned),
                 !.has_ops = TRUE,
                 !.first = IF @ = "none" THEN "ops" ELSE @]
    /\ UNCHANGED sgnOthers

\* PushMessage(json.loads(json.dumps(message.to_json())))
SgnToJson ==
    /\ sgn.has_node /\ sgn.has_ops /\ ~sgn.wired /\ ~sgn.checked
    /\ sgn' = [sgn EXCEPT !.msg = Rebuilt(@), !.wired = TRUE]
    /\ UNCHANGED sgnOthers

\* values a key can be replaced by: none, the key with text appended, and
\* under any secret the signature of the same operations, of no operations
\* and of the operations but the first
OtherKeys ==
    {NoKey, sgn.msg.key \o "broken"}
        \cup {Sha512(s \o Portion(ops)) :
                 s \in Secrets,
                 ops \in {sgn.msg.ops, <<>>}
                            \cup {Tail(o) : o \in {sgn.msg.ops} \ {<<>>}}}

\* message.key = k for another value k
SgnTamper(k) ==
    /\ sgn.has_node /\ sgn.has_ops /\ ~sgn.tampered /\ ~sgn.checked
    /\ k # sgn.msg.key
    /\ sgn' = [sgn EXCEPT !.msg.key = k, !.tampered = TRUE]
    /\ UNCHANGED sgnOthers

\* message.islegit(session)
SgnCheck ==
    /\ sgn.has_node /\ sgn.has_ops /\ ~sgn.checked
    /\ sgn' = [sgn EXCEPT !.checked = TRUE, !.legit = islegit(sgn.nodes, sgn.msg)]
    /\ UNCHANGED sgnOthers

SgnNext ==
    \/ \E n \in {1, 2} : SgnSetNode(n)
    \/ SgnAddOps
    \/ SgnToJson
    \/ \E k \in OtherKeys : SgnTamper(k)
    \/ SgnCheck

SpecSign == SgnInit /\ [][SgnNext]_vars

\* C8: a message signed with its node's secret, the node set before or
\* after the operations were added, is legit, also once rebuilt from its
\* JSON; with its key replaced by any other value it is not.
C8_SignedIsLegit ==
    sgn.checked =>
        /\ ~sgn.tampered => sgn.legit = "True"
        /\ sgn.tampered => sgn.legit = "False"

\* the node set first, two operations added after, the message rebuilt
\* from JSON and found legit
C8_Witness ==
    /\ sgn.checked /\ sgn.wired /\ ~sgn.tampered
    /\ sgn.first = "node"
    /\ Len(sgn.msg.ops) = 2
    /\ sgn.msg.ops[1].form = "hex"
    /\ sgn.legit = "True"

----------------------------------------------------------------------------
(* SpecCompress: a sender edits its rows, the tracking listeners log the   *)
(* operations, compress rewrites the log, and the log is applied to a      *)
(* receiving store by perform_async.                                       *)

cmpOthers == <<server, handler, sgn, client, trk, mrg, syn, wire, prf, txn, app>>

\* the log of a sender whose rows were all inserted and pushed before:
\* one versioned insert for every row it holds
RECURSIVE PushedLog(_, _)
PushedLog(s, r) ==
    IF r > MaxRow THEN <<>>
    ELSE IF s[r] = Absent THEN PushedLog(s, r + 1)
         ELSE <<Op(r, "i", 1)>> \o PushedLog(s, r + 1)

CmpInit ==
    /\ \E s \in Stores :
          cmp = [CmpIdle EXCEPT !.start = s, !.rows = s, !.log = PushedLog(s, 1)]
    /\ sgn = SgnIdle
    /\ server = ServerIdle
    /\ handler = HandlerIdle
    /\ client = ClientIdle
    /\ trk = TrkIdle
    /\ mrg = MrgIdle
    /\ syn = SynIdle
    /\ wire = WireIdle
    /\ prf = PrfIdle
    /\ txn = TxnIdle
    /\ app = AppIdle

\* a local mutation committed by the application: the row changes and the
\* after_insert / after_update / after_delete listener logs one operation
CmpEdit(r, c, v) ==
    /\ ~cmp.applied
    /\ Len(cmp.hist) < MaxEdits
    /\ CASE c = "i" -> cmp.rows[r] = Absent
         [] c = "u" -> cmp.rows[r] # Absent /\ cmp.rows[r] # v
         [] c = "d" -> cmp.rows[r] # Absent
    /\ cmp' = [cmp EXCEPT
                 !.rows[r] = IF c = "d" THEN Absent ELSE v,
                 !.log = Append(@, Op(r, c, Null)),
                 !.hist = Append(@, [cmd |-> c, row |-> r,
                                     val |-> IF c = "d" THEN Absent ELSE v]),
                 !.fresh = FALSE]
    /\ UNCHANGED cmpOthers

\* compress(session)
CmpCompress ==
    /\ ~cmp.applied
    /\ ~cmp.fresh
    /\ cmp' = [cmp EXCEPT !.log = compress(@), !.fresh = TRUE, !.prev = cmp.log]
    /\ UNCHANGED cmpOthers

\* the history replayed on a store, every operation with the values it
\* had when it was made
RECURSIVE Replay(_, _, _)
Replay(rows, hist, start) ==
    IF hist = <<>> THEN [rows |-> rows, err |-> FALSE]
    ELSE LET h == Head(hist)
             res == perform_async(rows, Op(h.row, h.cmd, Null),
                                  [r \in RowIds |-> IF r = h.row THEN h.val ELSE Absent])
         IN  IF res.err THEN [rows |-> start, err |-> TRUE]
             ELSE Replay(res.rows, Tail(hist), start)

\* the compressed log, with the sender's current rows as payload, and the
\* uncompressed history are each applied to the receiving store r0
CmpApply(r0) ==
    /\ cmp.fresh
    /\ ~cmp.applied
    /\ cmp' = [cmp EXCEPT
                 !.applied = TRUE,
                 !.recv = r0,
                 !.comp = PerformAll(r0, Unversioned(cmp.log), cmp.rows),
                 !.full = Replay(r0, cmp.hist, r0)]
    /\ UNCHANGED cmpOthers

CmpNext ==
    \/ \E r \in RowIds, c \in {"i", "u", "d"}, v \in Vals : CmpEdit(r, c, v)
    \/ CmpCompress
    \/ \E r0 \in Stores : CmpApply(r0)

SpecCompress == CmpInit /\ [][CmpNext]_vars

\* the commands of the history of one row, folded under the table
RECURSIVE HistCmd(_, _, _)
HistCmd(hist, row, acc) ==
    IF hist = <<>> THEN acc
    ELSE HistCmd(Tail(hist), row,
                 IF Head(hist).row = row THEN FoldCmd(acc, Head(hist).cmd) ELSE acc)

HistCount(hist, row) == Cardinality({k \in 1 .. Len(hist) : hist[k].row = row})

\* the commands a push message carries for one row
MessageCmds(log, row) ==
    LET ops == Unversioned(log)
    IN  {k \in 1 .. Len(ops) : ops[k].row = row}

\* C9: after compress every row has at most one unversioned operation, the
\* left fold of the row's operations since the start under the table
\* (i,u -> i; i,d -> none; u,u -> u; u,d -> d; d,i -> u); a row inserted
\* and then deleted has none and no operation of it is pushed.
C9_CompressFold ==
    cmp.fresh =>
        \A r \in RowIds :
            LET pos == RowPositions(cmp.log, r)
                want == HistCmd(cmp.hist, r, NoCmd)
                msg == MessageCmds(cmp.log, r)
            IN  /\ Cardinality(pos) <= 1
                /\ Cardinality(msg) <= 1
                /\ want = NoCmd => pos = {} /\ msg = {}
                /\ want # NoCmd => /\ \E k \in pos : cmp.log[k].cmd = want
                                   /\ \E k \in msg : Unversioned(cmp.log)[k].cmd = want
                /\ (cmp.start[r] = Absent /\ cmp.rows[r] = Absent) => msg = {}

\* a row inserted and deleted, next to another row with an operation left
C9_Witness ==
    /\ cmp.fresh
    /\ \E r, q \in RowIds :
          /\ r # q
          /\ cmp.start[r] = Absent /\ cmp.rows[r] = Absent
          /\ HistCount(cmp.hist, r) = 2
          /\ cmp.start[q] # Absent
          /\ RowPositions(cmp.log, q) # {}

\* rows the history touched
Touched == {r \in RowIds : HistCount(cmp.hist, r) > 0}

\* C10 as stated: for every starting state of the receiving store the
\* compressed log applied with the current snapshots leaves the same rows
\* as the uncompressed history.
C10_AnyStart ==
    cmp.applied => cmp.comp.rows = cmp.full.rows

\* C10 amended: when the receiving store starts with the sender's rows on
\* the rows the history touches, both applications succeed, leave the same
\* rows, and these are the sender's current rows.
C10_CompressionEquivalence ==
    (cmp.applied /\ \A r \in Touched : cmp.recv[r] = cmp.start[r]) =>
        /\ ~cmp.comp.err
        /\ ~cmp.full.err
        /\ cmp.comp.rows = cmp.full.rows
        /\ \A r \in Touched : cmp.comp.rows[r] = cmp.rows[r]

\* a history of three operations compressed to fewer and applied
C10_Witness ==
    /\ cmp.applied
    /\ \A r \in Touched : cmp.recv[r] = cmp.start[r]
    /\ Len(cmp.hist) = 3
    /\ Len(Unversioned(cmp.log)) < 3
    /\ cmp.comp.rows # cmp.recv

----------------------------------------------------------------------------
(* dbsync.server.wsserver.handle_push                                      *)

\* a query that orders the versions the other way: the smallest id
get_latest_version_id_first(versions) ==
    IF versions = {} THEN Null
    ELSE LET ids == {x.version_id : x \in versions}
         IN  CHOOSE v \in ids : \A w \in ids : v <= w

\* core.get_latest_version_id
get_latest_version_id(versions) ==
    IF versions = {} THEN Null
    ELSE LET ids == {x.version_id : x \in versions}
         IN  CHOOSE v \in ids : \A w \in ids : w <= v

VersionReason == "version identifier isn't the latest one"
SignReason == "message isn't properly signed"
OperationReason == "at least one operation couldn't be performed"

\* a version check that suggests a pull whenever the ids differ
VersionCheck_pull(latest_version_id, incoming) ==
    IF latest_version_id = incoming THEN "ok" ELSE "PullSuggested"

\* the version check of handle_push: "ok" or the exception it raises
VersionCheck(latest_version_id, incoming) ==
    IF latest_version_id = incoming THEN "ok"
    ELSE IF latest_version_id = Null THEN "PushRejected"
    ELSE IF incoming = Null THEN "PullSuggested"
    ELSE IF incoming < latest_version_id THEN "PullSuggested"
    ELSE "PushRejected"

\* the handler ends with an exception: its transaction is rolled back
Raise(h, exc) == [h EXCEPT !.pc = "closed", !.exc = exc]

\* the handler receives message m on a snapshot srv of the database:
\* version check, signature check, before_push listeners
Receive(h, m, srv) ==
    LET started == [h EXCEPT !.msg = m, !.pre = srv, !.rows = srv.rows]
        check == VersionCheck(get_latest_version_id(srv.versions), m.latest)
        legit == islegit(srv.nodes, m)
    IN  IF check # "ok" THEN Raise(started, Exc(check, VersionReason))
        ELSE IF legit = "LookupError"
             THEN Raise(started, Exc("LookupError", "node not found"))
        ELSE IF legit = "False"
             THEN Raise(started, Exc("PushRejected", SignReason))
        ELSE [started EXCEPT !.pc = "perform", !.listened = TRUE]

\* a loop that goes on after an operation failed
OperationsStep_continue(h) ==
    LET op == h.msg.ops[h.idx]
        res == perform_async(h.rows, op, h.msg.payload)
    IN  IF ~tracked_model(op) THEN [h EXCEPT !.idx = @ + 1]
        ELSE
        [h EXCEPT !.rows = res.rows,
                  !.idx = @ + 1,
                  !.post = IF res.took THEN Append(@, op) ELSE @]

\* one turn of the operations loop: an operation without tracked model is
\* left out; else perform_async, and the operation joins post_operations
\* when an object came back; OperationError becomes PushRejected
OperationsStep(h) ==
    LET op == h.msg.ops[h.idx]
        res == perform_async(h.rows, op, h.msg.payload)
    IN  IF ~tracked_model(op) THEN [h EXCEPT !.idx = @ + 1]
        ELSE IF res.err THEN Raise(h, Exc("PushRejected", OperationReason))
        ELSE [h EXCEPT !.rows = res.rows,
                       !.idx = @ + 1,
                       !.post = IF res.took THEN Append(@, op) ELSE @]

\* a version inserted for every accepted message
InsertVersion_always(h, seq) ==
    [h EXCEPT !.version = seq + 1, !.result = seq + 1, !.sent = TRUE, !.pc = "sent"]

\* after the loop: a Version is added when post_operations is not empty,
\* its id the next value of the sequence, and the result message is sent
InsertVersion(h, seq) ==
    IF h.post # <<>>
    THEN [h EXCEPT !.version = seq + 1, !.result = seq + 1,
                   !.sent = TRUE, !.pc = "sent"]
    ELSE [h EXCEPT !.version = Null, !.result = Null,
                   !.sent = TRUE, !.pc = "sent"]

\* copies that are added without the link to the new version
RECURSIVE Versioned_unlinked(_, _)
Versioned_unlinked(ops, version_id) ==
    IF ops = <<>> THEN <<>>
    ELSE <<Op(Head(ops).row, Head(ops).cmd, Null)>>
         \o Versioned_unlinked(Tail(ops), version_id)

\* the copies of the accomplished operations, linked to the new version
RECURSIVE Versioned(_, _)
Versioned(ops, version_id) ==
    IF ops = <<>> THEN <<>>
    ELSE <<Op(Head(ops).row, Head(ops).cmd, version_id)>>
         \o Versioned(Tail(ops), version_id)

\* what the transaction of handler h leaves in the database on commit
Committed(h, srv) ==
    IF h.version = Null THEN srv
    ELSE [srv EXCEPT
            !.rows = h.rows,
            !.versions = @ \cup {[version_id |-> h.version, node_id |-> h.msg.node_id]},
            !.ops = @ \o Versioned(h.post, h.version)]

\* serializable isolation: a transaction that wrote cannot commit once
\* another one that wrote has committed after its snapshot was taken
Conflict(h, srv) == h.post # <<>> /\ srv.versions # h.pre.versions

SerializationFailure == Exc("SerializationError", "psycopg2.errors.SerializationFailure")

----------------------------------------------------------------------------
(* Actions of the server                                                   *)

srvOthers == <<cmp, sgn, client, trk, mrg, syn, wire, prf, txn, app>>

\* a connection to /push delivers one of the messages: the transaction
\* starts, the message is checked
HBegin(h, messages) ==
    /\ handler[h].pc = "idle"
    /\ server.seq < MaxVersion
    /\ \E m \in messages : handler' = [handler EXCEPT ![h] = Receive(HIdle, m, server)]
    /\ UNCHANGED <<server, cmp, sgn, client, trk, mrg, syn, wire, prf, txn, app>>

\* the next operation of the message is performed
HPerform(h) ==
    /\ handler[h].pc = "perform"
    /\ handler[h].idx <= Len(handler[h].msg.ops)
    /\ handler' = [handler EXCEPT ![h] = OperationsStep(@)]
    /\ UNCHANGED <<server, cmp, sgn, client, trk, mrg, syn, wire, prf, txn, app>>

\* the version and the operations are flushed and the result is sent
HVersion(h) ==
    /\ handler[h].pc = "perform"
    /\ handler[h].idx > Len(handler[h].msg.ops)
    /\ IF Conflict(handler[h], server)
       THEN /\ handler' = [handler EXCEPT ![h] = Raise(@, SerializationFailure)]
            /\ server' = [server EXCEPT !.seq = @ + 1]
       ELSE /\ handler' = [handler EXCEPT ![h] = InsertVersion(@, server.seq)]
            /\ server' = [server EXCEPT
                            !.seq = IF handler'[h].version # Null THEN @ + 1 ELSE @]
    /\ UNCHANGED <<cmp, sgn, client, trk, mrg, syn, wire, prf, txn, app>>

\* the handler returned: with_transaction_async commits
HCommit(h) ==
    /\ handler[h].pc = "sent"
    /\ IF Conflict(handler[h], server)
       THEN /\ handler' = [handler EXCEPT ![h] = Raise(@, SerializationFailure)]
            /\ UNCHANGED server
       ELSE /\ handler' = [handler EXCEPT ![h].pc = "closed", ![h].committed = TRUE]
            /\ server' = Committed(handler[h], server)
    /\ UNCHANGED <<cmp, sgn, client, trk, mrg, syn, wire, prf, txn, app>>

\* the transport closes under the handler while it performs operations
\* and sends on the socket: the handler ends there and the transaction is
\* rolled back
HCancel(h) ==
    /\ handler[h].pc = "perform"
    /\ handler' = [handler EXCEPT ![h] = Raise(@, Exc("CancelledError", "cancelled"))]
    /\ UNCHANGED <<server, cmp, sgn, client, trk, mrg, syn, wire, prf, txn, app>>

\* the connection is gone; the slot takes the next one
HClose(h) ==
    /\ handler[h].pc = "closed"
    /\ handler' = [handler EXCEPT ![h] = HIdle]
    /\ UNCHANGED <<server, cmp, sgn, client, trk, mrg, syn, wire, prf, txn, app>>

----------------------------------------------------------------------------
(* SpecPush: one handler at a time, on every message of the bounded set    *)

WireOps == {uuidstr(Op(r, c, Null)) : r \in RowIds, c \in {"i", "u", "d"}}
WireOpSeqs == UNION {[1 .. n -> WireOps] : n \in 0 .. MaxMsgOps}

\* messages as they arrive: any operations and payload, any node id, no
\* key or a key made with any secret, any latest version id
PushMessages ==
    UNION {
        {[node_id |-> n, secret |-> NoSecret, key |-> k, latest |-> l,
          ops |-> ops, payload |-> pl] :
            n \in 0 .. MaxNodes + 1,
            k \in {NoKey} \cup {Sha512(s \o Portion(ops)) : s \in Secrets},
            l \in 0 .. MaxVersion,
            pl \in Stores} :
        ops \in WireOpSeqs}

\* the messages SpecPush delivers: those the checks let through, with any
\* operations and payload, and those they refuse, with at most one operation
PushInputs ==
    {m \in PushMessages :
        \/ Receive(HIdle, m, server).pc = "perform"
        \/ Len(m.ops) <= 1 /\ m.payload \in {EmptyStore, [r \in RowIds |-> "x"]}}

\* the first row a store holds
FirstRow(s) == CHOOSE r \in RowIds : s[r] # Absent /\ \A q \in RowIds : s[q] # Absent => r <= q

\* the database as k earlier pushes of node 1 left it with rows s: the
\* first inserted the rows, each later one updated the first row
PastServer(s, k) ==
    [rows |-> s,
     versions |-> {[version_id |-> j, node_id |-> 1] : j \in 1 .. k},
     ops |-> IF k = 0 THEN <<>>
             ELSE PushedLog(s, 1) \o [j \in 1 .. k - 1 |-> Op(FirstRow(s), "u", j + 1)],
     nodes |-> <<>>,
     seq |-> k]

\* SpecPush starts with two registered nodes and a database that earlier
\* pushes filled; the ids below MaxVersion that no version holds went to
\* pushes that were rolled back
PushInit ==
    /\ \E s \in Stores, k \in 0 .. MaxVersion - 1 :
          /\ k = 0 <=> s = EmptyStore
          /\ server = [PastServer(s, k) EXCEPT !.nodes = <<"k1", "k2">>,
                                               !.seq = MaxVersion - 1]
    /\ handler = HandlerIdle
    /\ client = ClientIdle
    /\ trk = TrkIdle
    /\ mrg = MrgIdle
    /\ syn = SynIdle
    /\ wire = WireIdle
    /\ prf = PrfIdle
    /\ txn = TxnIdle
    /\ app = AppIdle
    /\ cmp = CmpIdle
    /\ sgn = SgnIdle

PushNext ==
    \/ HBegin(1, PushInputs)
    \/ HPerform(1)
    \/ HVersion(1)
    \/ HCommit(1)
    \/ HCancel(1)
    \/ HClose(1)

SpecPush == PushInit /\ [][PushNext]_vars

\* the database holds what it held when handler H started
Untouched(H) ==
    /\ server.rows = H.pre.rows
    /\ server.versions = H.pre.versions
    /\ server.ops = H.pre.ops

\* no operation of the message of H was applied
NothingApplied(H) == H.idx = 1 /\ H.post = <<>> /\ H.rows = H.pre.rows

\* C3: a push whose latest_version_id differs from the server's latest is
\* refused before any operation is applied and the database is unchanged:
\* PushRejected when the server has no version or the client's id is the
\* greater, PullSuggested when the client's id is null or the smaller.
C3_VersionMismatchRefused ==
    \A h \in Slots :
        LET H == handler[h]
            latest == get_latest_version_id(H.pre.versions)
            incoming == H.msg.latest
        IN  (H.pc = "closed" /\ incoming # latest) =>
                /\ H.exc.reason = VersionReason
                /\ (latest = Null \/ (incoming # Null /\ incoming > latest))
                       => H.exc.type = "PushRejected"
                /\ (latest # Null /\ (incoming = Null \/ incoming < latest))
                       => H.exc.type = "PullSuggested"
                /\ NothingApplied(H)
                /\ ~H.listened
                /\ ~H.sent
                /\ Untouched(H)

\* a push that is one version behind, refused with PullSuggested
C3_Witness ==
    \E h \in Slots :
        /\ handler[h].pc = "closed"
        /\ handler[h].msg.latest # Null
        /\ handler[h].msg.latest < get_latest_version_id(handler[h].pre.versions)
        /\ Len(handler[h].msg.ops) = 1
        /\ handler[h].exc.type = "PullSuggested"

RECURSIVE TookEffect(_, _, _)
TookEffect(rows, ops, payload) ==
    IF ops = <<>> THEN FALSE
    ELSE LET res == perform_async(rows, Head(ops), payload)
         IN  res.took \/ (~res.err /\ TookEffect(res.rows, Tail(ops), payload))

\* C5: an accepted push of which an operation took effect adds exactly one
\* Version, of the message's node, and the result carries its id; one of
\* which none took effect adds no Version and no Operation and the result
\* carries null.
C5_VersionIffEffect ==
    \A h \in Slots :
        LET H == handler[h]
        IN  (H.pc = "closed" /\ H.committed) =>
                /\ H.sent
                /\ IF TookEffect(H.pre.rows, H.msg.ops, H.msg.payload)
                   THEN \E v \in server.versions :
                            /\ v \notin H.pre.versions
                            /\ server.versions = H.pre.versions \cup {v}
                            /\ v.node_id = H.msg.node_id
                            /\ H.result = v.version_id
                            /\ H.result # Null
                   ELSE /\ server.versions = H.pre.versions
                        /\ server.ops = H.pre.ops
                        /\ H.result = Null

\* an accepted push with two operations of which only the second took
\* effect
C5_Witness ==
    \E h \in Slots :
        /\ handler[h].pc = "closed" /\ handler[h].committed
        /\ Len(handler[h].msg.ops) = 2
        /\ Len(handler[h].post) = 1
        /\ handler[h].post[1] = handler[h].msg.ops[2]
        /\ handler[h].result = MaxVersion

\* the key of the message is the digest made with the secret of its node
Verifies(nodes, msg) ==
    /\ msg.key # NoKey
    /\ msg.node_id # Null
    /\ msg.node_id \in DOMAIN nodes
    /\ msg.key = Sha512(nodes[msg.node_id] \o Portion(msg.ops))

\* C7: a push that passes the version check and whose signature does not
\* verify (wrong key, no key, no node_id, unknown node_id) is refused with
\* PushRejected("message isn't properly signed"); no before_push listener
\* runs and no operation is applied.
C7_BadSignatureRejected ==
    \A h \in Slots :
        LET H == handler[h]
        IN  (/\ H.pc = "closed"
             /\ H.msg.latest = get_latest_version_id(H.pre.versions)
             /\ ~Verifies(H.pre.nodes, H.msg)) =>
                /\ H.exc = Exc("PushRejected", SignReason)
                /\ ~H.listened
                /\ NothingApplied(H)
                /\ Untouched(H)

----------------------------------------------------------------------------
(* The client node: registration, change tracking, run_push               *)

tries == 15       \* rounds of synchronize
MaxLocal == 3     \* operations the client nodes log, all together

\* an entry of the client's operation log as the tracker makes it: order
\* is its primary key, version_id is None
LogOp(order, row, cmd) ==
    [order |-> order, row |-> row, form |-> "uuid", ct |-> CtA, cmd |-> cmd,
     ver |-> Null]

\* generate_secret: random texts, no two nodes get the same
generate_secret(node_id) == IF node_id = 1 THEN "k1" ELSE "k2"

\* the objects a message carries: the rows of its operations that are not
\* deletes, as the store holds them
required_objects(rows, ops) ==
    [r \in RowIds |->
        IF \E k \in DOMAIN ops : ops[k].row = r /\ ops[k].cmd # "d"
        THEN rows[r] ELSE Absent]

\* SyncClient.create_push_message, the log already compressed
create_push_message(cl, log) ==
    LET message == [NewMessage EXCEPT !.latest = get_latest_version_id(cl.versions)]
        filled == add_unversioned_operations(message, Unversioned(log))
    IN  [filled EXCEPT !.payload = required_objects(cl.rows, filled.ops)]

\* run_push after the connection ended with new_version_id: every
\* Operation row whose row_id is that of an operation of the message gets
\* the version id, and the Version is added
mark_operations(cl, new_version_id) ==
    IF new_version_id = Null THEN cl
    ELSE LET ops == cl.msg.ops
         IN  [cl EXCEPT
                !.log = [k \in DOMAIN cl.log |->
                            IF \E j \in DOMAIN ops : ops[j].row = cl.log[k].row
                            THEN [cl.log[k] EXCEPT !.ver = new_version_id]
                            ELSE cl.log[k]],
                !.versions = @ \cup {[version_id |-> new_version_id, node_id |-> Null]},
                !.pushed = @ \cup {<<ops[j].order, new_version_id>> : j \in DOMAIN ops}]

\* a synchronize that goes on after PullSuggested only
Retried_pull == {"PullSuggested"}

\* the exceptions after which synchronize pulls and goes to the next round
Retried == {"SerializationError", "PullSuggested"}

\* the operations the client nodes have logged so far
Logged == client[1].next + client[2].next - 2

\* every client node holds its Node row
Registered == \A c \in Clients : client[c].node # NoNode

\* register: the server adds a Node with a generated secret and the client
\* stores it.  The nodes register one after the other, before they do
\* anything else
CRegister(c) ==
    /\ client[c].pc = "idle"
    /\ client[c].node = NoNode
    /\ Len(server.nodes) = c - 1
    /\ LET node_id == Len(server.nodes) + 1
           secret == generate_secret(node_id)
       IN  /\ server' = [server EXCEPT !.nodes = Append(@, secret)]
           /\ client' = [client EXCEPT
                           ![c].node = [node_id |-> node_id, secret |-> secret]]
    /\ UNCHANGED <<handler, cmp, sgn, trk, mrg, syn, wire, prf, txn, app>>

\* the application commits a change of row r and the tracker logs it: an
\* insert of the node's own new row, an update that modifies a row, a
\* delete.  It may do so while a push is under way: between the sending
\* of the message and the end of the connection
CEdit(c, r, cmd, v) ==
    /\ Registered
    /\ \/ client[c].pc = "idle"
       \/ client[c].pc = "wait" /\ handler[c].pc = "closed"
    /\ Logged < MaxLocal
    /\ CASE cmd = "i" -> r = c /\ ~client[c].born /\ client[c].rows[r] = Absent
         [] cmd = "u" -> client[c].rows[r] \notin {Absent, v}
         [] OTHER -> client[c].rows[r] # Absent /\ v = "x"
    /\ client' = [client EXCEPT
                    ![c].rows[r] = IF cmd = "d" THEN Absent ELSE v,
                    ![c].log = Append(@, LogOp(client[c].next, r, cmd)),
                    ![c].next = @ + 1,
                    ![c].born = @ \/ cmd = "i",
                    ![c].quiet = FALSE,
                    ![c].phase = "none",
                    ![c].mark = {}]
    /\ UNCHANGED <<server, handler, cmp, sgn, trk, mrg, syn, wire, prf, txn, app>>

\* a round of synchronize begins (the first one when the node is idle):
\* run_push compresses the log, builds and signs the message and sends
\* it; the handler of the server receives it
CPush(c) ==
    LET cl == client[c]
        log == compress(cl.log)
        message == set_node(create_push_message(cl, log), cl.node)
        running == {g \in Slots \ {c} : handler[g].pc \in {"perform", "sent"}}
    IN  /\ Registered
        /\ cl.pc \in {"idle", "push"}
        /\ handler[c].pc = "idle"
        /\ message.ops = <<>> \/ server.seq < MaxVersion
        /\ client' = [client EXCEPT ![c] =
                        [cl EXCEPT !.log = log, !.msg = message, !.pc = "wait",
                                   !.round = IF cl.pc = "idle" THEN 0 ELSE @,
                                   !.out = "none", !.exc = NoExc,
                                   !.quiet = TRUE, !.phase = "none",
                                   !.mark = {}]]
        /\ handler' = [g \in Slots |->
                          IF g = c
                          THEN [Receive(HIdle, Rebuilt(message), server)
                                   EXCEPT !.peers = running]
                          ELSE IF g \in running
                          THEN [handler[g] EXCEPT !.peers = @ \cup {c}]
                          ELSE handler[g]]
        /\ UNCHANGED <<server, cmp, sgn, trk, mrg, syn, wire, prf, txn, app>>

\* the connection of the push has ended: run_push marks the operations
\* when a result with a version id came, connect_async raises the
\* exception the server closed with, and synchronize returns the round,
\* goes on to pull, or raises
CPushDone(c) ==
    LET cl == client[c]
        H == handler[c]
        new_version_id == IF H.sent THEN H.result ELSE Null
        marked == mark_operations(cl, new_version_id)
        added == IF H.committed /\ H.version # Null
                 THEN {[version_id |-> H.version, node_id |-> H.msg.node_id]}
                 ELSE {}
    IN  /\ cl.pc = "wait"
        /\ H.pc = "closed"
        /\ client' = [client EXCEPT ![c] =
                        [marked EXCEPT
                            !.msg = NewMessage,
                            !.exc = IF H.exc.type \in Retried THEN H.exc ELSE NoExc,
                            !.pc = IF H.exc.type \in Retried THEN "pull" ELSE "idle",
                            !.round = IF H.exc.type \in Retried THEN @ ELSE 0,
                            !.quiet = FALSE,
                            !.out = IF H.exc = NoExc THEN "returned"
                                    ELSE IF H.exc.type \in Retried THEN "none"
                                    ELSE "raised",
                            !.phase = IF H.exc = NoExc /\ cl.quiet
                                      THEN "pushed" ELSE "none",
                            !.mark = IF H.exc = NoExc /\ cl.quiet
                                     THEN H.pre.versions \cup added ELSE {}]]
        /\ handler' = [g \in Slots |->
                          IF g = c THEN HIdle
                          ELSE [handler[g] EXCEPT !.peers = @ \ {c}]]
        /\ UNCHANGED <<server, cmp, sgn, trk, mrg, syn, wire, prf, txn, app>>

----------------------------------------------------------------------------
(* run_pull: the pull message of the server and the merge on the client    *)

\* PullMessage.fill_for: the versions after the requested one, their
\* operations, and the rows the operations that are not deletes need, as
\* the database holds them now
fill_for(srv, latest) ==
    LET versions == {x \in srv.versions : latest = Null \/ x.version_id > latest}
        ops == SelectSeq(srv.ops,
                         LAMBDA o : \E x \in versions : o.ver = x.version_id)
    IN  [versions |-> versions, ops |-> ops,
         payload |-> required_objects(srv.rows, ops)]

\* compressed_operations: the pulled operations, one per row
compressed_operations(ops) ==
    compress([k \in DOMAIN ops |-> [ops[k] EXCEPT !.ver = Null]])

\* purgelocal: the local operation at position j leaves the log
purgelocal(st, j) ==
    [st EXCEPT !.log = SubSeq(@, 1, j - 1) \o SubSeq(@, j + 1, Len(@))]

\* pull_op.perform on the local store; OperationError ends the merge
Performed(st, pull_op, payload) ==
    LET res == perform_async(st.rows, pull_op, payload)
    IN  [st EXCEPT !.rows = res.rows, !.err = res.err]

\* one turn of the loop over pull_ops: the direct conflict with the local
\* unversioned operation of the same row, if any, decides
MergeStep(st, pull_op, payload) ==
    LET direct == {j \in DOMAIN st.log :
                      /\ st.log[j].ver = Null
                      /\ st.log[j].row = pull_op.row
                      /\ st.log[j].ct = pull_op.ct}
    IN  IF direct = {} THEN Performed(st, pull_op, payload)
        ELSE LET j == CHOOSE j \in direct : TRUE
                 local == st.log[j]
             IN  CASE pull_op.cmd = "u" /\ local.cmd = "u" -> st
                   [] pull_op.cmd = "u" /\ local.cmd = "d" ->
                          Performed(purgelocal(st, j),
                                    [pull_op EXCEPT !.cmd = "i"], payload)
                   [] pull_op.cmd = "d" /\ local.cmd = "u" ->
                          [st EXCEPT !.log[j].cmd = "i"]
                   [] pull_op.cmd = "d" -> purgelocal(st, j)
                   [] OTHER -> Performed(purgelocal(st, j), pull_op, payload)

RECURSIVE MergeFrom(_, _, _, _)
MergeFrom(st, pull_ops, payload, k) ==
    IF k > Len(pull_ops) \/ st.err THEN st
    ELSE MergeFrom(MergeStep(st, pull_ops[k], payload), pull_ops, payload, k + 1)

\* merge: rows and log after, or err when it raised and was rolled back
merge(rows, log, pull_message) ==
    MergeFrom([rows |-> rows, log |-> compress(log), err |-> FALSE],
              compressed_operations(pull_message.ops), pull_message.payload, 1)

\* run_pull, by itself when the node is idle or as the second half of a
\* round of synchronize: the log is compressed, the server answers the
\* request with the pull message, the client merges it
CPull(c) ==
    LET cl == client[c]
        log == compress(cl.log)
        message == fill_for(server, get_latest_version_id(cl.versions))
        merged == merge(cl.rows, log, message)
        after == IF merged.err
                 THEN [cl EXCEPT !.log = log, !.exc = NoExc]
                 ELSE [cl EXCEPT !.rows = merged.rows, !.log = merged.log,
                                 !.versions = @ \cup message.versions,
                                 !.exc = NoExc]
    IN  /\ Registered
        /\ cl.pc \in {"idle", "pull"}
        /\ client' = [client EXCEPT ![c] =
              IF merged.err
              THEN [after EXCEPT !.pc = "idle", !.out = "raised", !.round = 0,
                                 !.phase = "none", !.mark = {}]
              ELSE IF cl.pc = "idle"
              THEN [after EXCEPT !.phase = IF @ = "none" THEN "none" ELSE "synced"]
              ELSE IF cl.round + 1 < tries
              THEN [after EXCEPT !.pc = "push", !.round = @ + 1, !.phase = "none"]
              ELSE [after EXCEPT !.pc = "idle", !.out = "exhausted", !.round = 0,
                                 !.phase = "none"]]
        /\ UNCHANGED <<server, handler, cmp, sgn, trk, mrg, syn, wire, prf, txn, app>>

----------------------------------------------------------------------------
(* Spec: the server and the client nodes from construction on              *)

Init ==
    /\ server = ServerIdle
    /\ handler = HandlerIdle
    /\ client = ClientIdle
    /\ trk = TrkIdle
    /\ mrg = MrgIdle
    /\ syn = SynIdle
    /\ wire = WireIdle
    /\ prf = PrfIdle
    /\ txn = TxnIdle
    /\ app = AppIdle
    /\ cmp = CmpIdle
    /\ sgn = SgnIdle

Next ==
    \E c \in Clients :
        \/ CRegister(c)
        \/ \E r \in RowIds, cmd \in {"i", "u", "d"}, v \in Vals : CEdit(c, r, cmd, v)
        \/ CPush(c)
        \/ HPerform(c)
        \/ HVersion(c)
        \/ HCommit(c)
        \/ CPushDone(c)
        \/ CPull(c)

Spec == Init /\ [][Next]_vars

----------------------------------------------------------------------------
(* Properties of the client log                                            *)

\* C6: on a client an operation has a version_id only if it was carried in
\* a push message that the server answered with a new_version_id, and its
\* version_id is that id; an operation that no such message carried (one
\* logged for the same row after the message was built, say) is
\* unversioned.
C6_VersionedOnlyIfCarried ==
    \A c \in Clients :
        \A k \in DOMAIN client[c].log :
            LET op == client[c].log[k]
            IN  op.ver # Null => <<op.order, op.ver>> \in client[c].pushed

----------------------------------------------------------------------------
(* Two push handlers at a time                                             *)

\* handler H has committed a new Version
Won(H) == H.committed /\ H.version # Null

\* the push handlers of slots h and g ran at the same time on messages
\* with the same latest_version_id, and that of h committed a new Version
Raced(hs, h, g) ==
    /\ g \in hs[h].peers
    /\ hs[g].pc # "idle"
    /\ hs[h].msg.latest = hs[g].msg.latest
    /\ Won(hs[h])

\* the statement of C2 as it stands: of two push handlers that run at the
\* same time on messages with the same latest_version_id at most one
\* commits a new Version, and the other one commits nothing and ends with
\* PullSuggested or a serialization error.
C2_LoserRefused ==
    \A h \in Slots : \A g \in Slots :
        (Raced(handler, h, g) /\ handler[g].pc = "closed") =>
            /\ ~Won(handler[g])
            /\ handler[g].exc.type \in {"PullSuggested", "SerializationError"}

\* C2: of two push handlers that run at the same time on messages with the
\* same latest_version_id at most one commits a new Version; the other one
\* commits nothing, and when all its operations were performed and one of
\* them took effect it ends with PullSuggested or a serialization error;
\* the client that gets either of the two pulls next and, when the merge
\* succeeded, goes on to the next round of pushing.
C2_OneVersionPerRace ==
    [][\A h \in Slots : \A g \in Slots :
          /\ Raced(handler', h, g) =>
                /\ ~Won(handler'[g])
                /\ handler'[g].rows = handler'[g].pre.rows \/ ~handler'[g].committed
                /\ (/\ handler'[g].pc = "closed"
                    /\ handler'[g].idx > Len(handler'[g].msg.ops)
                    /\ handler'[g].post # <<>>)
                       => handler'[g].exc.type \in {"PullSuggested", "SerializationError"}
          /\ (/\ Raced(handler, h, g)
              /\ handler[g].exc.type \in {"PullSuggested", "SerializationError"}
              /\ handler'[g].pc = "idle")
                 => client'[g].pc = "pull"
          /\ (client[g].pc = "pull" /\ client'[g] # client[g])
                 => \/ client'[g].pc = "push" /\ client'[g].round = client[g].round + 1
                    \/ client'[g].pc = "idle" /\ client'[g].out = "raised"
      ]_vars

\* two handlers had performed their operations on the same snapshot; the
\* first committed its Version and the commit of the second failed
C2_Witness ==
    \E h \in Slots : \E g \in Slots :
        /\ Raced(handler, h, g)
        /\ handler[g].pre.versions = handler[h].pre.versions
        /\ handler[g].pc = "closed"
        /\ handler[g].sent
        /\ handler[g].exc = SerializationFailure

----------------------------------------------------------------------------
(* Convergence                                                             *)

\* client c has completed a push and then a pull, it has made no local
\* change since the message of that push was built, and the server holds
\* the versions it held when the push completed
Settled(c) ==
    /\ client[c].phase = "synced"
    /\ client[c].pc = "idle"
    /\ server.versions = client[c].mark

\* C1: after a client completes a push and then a pull, with no push of
\* another node reaching the server in between, every row has the same
\* state on the client and on the server.
C1_Convergence ==
    \A c \in Clients : Settled(c) => client[c].rows = server.rows

----------------------------------------------------------------------------
(* SpecTrack: dbsync.client.tracking.  The application calls track for the *)
(* model, its sessions flush mutations, commit and roll back; the          *)
(* listeners fill the operations queue and after_commit moves it to the    *)
(* operation log.                                                          *)
(* In trk, buf[s] holds the mutations session s flushed in its open        *)
(* transaction (id, command, row, due: the tracker has to capture it,      *)
(* queued: a listener queued an operation for it); done lists the due      *)
(* mutations of committed transactions, committed and rolled the ids of    *)
(* the mutations committed and rolled back; mixed tells that a session     *)
(* committed or rolled back while the queue held operations of another;    *)
(* skipped holds the mutations (id, row) for which before_tracking_fn      *)
(* raised SkipOperation; hidden holds the mutations made by an internal    *)
(* session or while listening was disabled.                                *)

MaxMut == 2       \* mutations the sessions flush

trkOthers == <<server, handler, cmp, sgn, client, mrg, syn, wire, prf, txn, app>>

\* core.Session() marks the sessions of the library itself
Internal(s) == s = 3

\* the directions track can be called with
Directions == {{"push"}, {"pull"}, {"push", "pull"}}

\* start_tracking: the listeners it installs, given what is installed
start_tracking(t, directions) ==
    LET marked == [t EXCEPT !.pulled = @ \/ "pull" \in directions,
                            !.pushed = @ \/ "push" \in directions]
    IN  IF t.synched THEN marked
        ELSE IF "push" \notin directions THEN [marked EXCEPT !.synched = TRUE]
        ELSE [marked EXCEPT !.synched = TRUE, !.listeners = @ + 1]

\* a listener that does not catch SkipOperation apart
add_operation_noskip(t, s, cmd, modified, skip) ==
    /\ ~Internal(s)
    /\ t.listening
    /\ cmd = "u" => modified
    /\ t.synched

\* a listener that does not look at the session of the mutation
add_operation_internal(t, s, cmd, modified, skip) ==
    /\ t.listening
    /\ cmd = "u" => modified
    /\ t.synched
    /\ ~skip

\* _add_operation: whether a listener queues an operation for the mutation
add_operation(t, s, cmd, modified, skip) ==
    /\ ~Internal(s)
    /\ t.listening
    /\ cmd = "u" => modified
    /\ t.synched
    /\ ~skip

\* the mutation is one the tracker has to capture
Due(t, s, cmd, modified, skip) ==
    /\ t.pushed
    /\ ~Internal(s)
    /\ t.listening
    /\ cmd = "u" => modified
    /\ ~skip

\* the operation as it is queued
QueuedOp(id, s, row, cmd) ==
    [id |-> id, sess |-> s, row |-> row, ct |-> CtA, cmd |-> cmd, ver |-> Null]

\* flush_operations: the log after session s committed
flush_operations(t, s) ==
    IF t.queue = <<>> \/ Internal(s) THEN t
    ELSE IF ~t.listening THEN t
    ELSE [t EXCEPT !.log = @ \o t.queue, !.queue = <<>>]

\* empty_queue: the queue after session s rolled back
empty_queue(t, s) ==
    IF Internal(s) THEN t
    ELSE IF ~t.listening THEN t
    ELSE [t EXCEPT !.queue = <<>>]

\* the queue holds an operation of a session other than s
Foreign(t, s) == \E k \in DOMAIN t.queue : t.queue[k].sess # s

BufIds(b) == {b[k].id : k \in DOMAIN b}

TrkInit ==
    /\ trk = TrkIdle
    /\ server = ServerIdle
    /\ handler = HandlerIdle
    /\ client = ClientIdle
    /\ cmp = CmpIdle
    /\ sgn = SgnIdle
    /\ mrg = MrgIdle
    /\ syn = SynIdle
    /\ wire = WireIdle
    /\ prf = PrfIdle
    /\ txn = TxnIdle
    /\ app = AppIdle

\* track(...)(model)
Track(directions) ==
    /\ trk' = start_tracking(trk, directions)
    /\ UNCHANGED trkOthers

\* session s flushes an insert, update or delete of row r; every listener
\* installed for the command runs _add_operation
TMutate(s, r, cmd, modified, skip) ==
    /\ trk.next <= MaxMut
    /\ cmd # "u" => modified
    /\ skip => modified /\ ~Internal(s)
    /\ LET id == trk.next
           queued == trk.listeners > 0 /\ add_operation(trk, s, cmd, modified, skip)
           ops == [k \in 1 .. (IF queued THEN trk.listeners ELSE 0) |->
                       QueuedOp(id, s, r, cmd)]
           entry == [id |-> id, row |-> r, cmd |-> cmd,
                     due |-> Due(trk, s, cmd, modified, skip),
                     queued |-> queued]
           raised == /\ skip
                     /\ trk.listeners > 0
                     /\ add_operation(trk, s, cmd, modified, FALSE)
       IN  trk' = [trk EXCEPT !.queue = @ \o ops,
                              !.buf[s] = Append(@, entry),
                              !.next = @ + 1,
                              !.skipped = IF raised THEN @ \cup {<<id, r>>} ELSE @,
                              !.hidden = IF Internal(s) \/ ~trk.listening
                                         THEN @ \cup {id} ELSE @]
    /\ UNCHANGED trkOthers

\* session s commits: after_commit runs flush_operations
TCommit(s) ==
    /\ trk.buf[s] # <<>> \/ trk.queue # <<>>
    /\ trk' = [flush_operations(trk, s) EXCEPT
                  !.buf[s] = <<>>,
                  !.done = @ \o SelectSeq(trk.buf[s], LAMBDA e : e.due),
                  !.committed = @ \cup BufIds(trk.buf[s]),
                  !.mixed = @ \/ Foreign(trk, s)]
    /\ UNCHANGED trkOthers

\* session s rolls back: after_soft_rollback runs empty_queue
TRollback(s) ==
    /\ trk.buf[s] # <<>> \/ trk.queue # <<>>
    /\ trk' = [empty_queue(trk, s) EXCEPT
                  !.buf[s] = <<>>,
                  !.rolled = @ \cup BufIds(trk.buf[s]),
                  !.mixed = @ \/ Foreign(trk, s)]
    /\ UNCHANGED trkOthers

\* core.toggle_listening, between transactions
TToggle ==
    /\ trk.queue = <<>>
    /\ \A s \in Sessions : trk.buf[s] = <<>>
    /\ trk' = [trk EXCEPT !.listening = ~@]
    /\ UNCHANGED trkOthers

TrkNext ==
    \/ \E directions \in Directions : Track(directions)
    \/ \E s \in Sessions, r \in RowIds, cmd \in {"i", "u", "d"},
          modified \in BOOLEAN, skip \in BOOLEAN :
          TMutate(s, r, cmd, modified, skip)
    \/ \E s \in Sessions : TCommit(s)
    \/ \E s \in Sessions : TRollback(s)
    \/ TToggle

SpecTrack == TrkInit /\ [][TrkNext]_vars

\* what an entry of the log or of done says: row, command, and for the
\* log the content type and the version id
View(seq) == [k \in DOMAIN seq |-> <<seq[k].row, seq[k].cmd>>]

\* C11: on the client every committed insert, delete or modifying update
\* of a row of a model tracked for push, made in a non-internal session
\* while listening and not skipped, adds exactly one Operation with the
\* row's primary key, the content type, the command and version_id null,
\* also when track was called more than once, and in the order of the
\* mutations.  Stated for histories in which no session committed or
\* rolled back while operations of another session were queued.
C11_ExactCapture ==
    (/\ ~trk.mixed
     /\ trk.queue = <<>>
     /\ \A s \in Sessions : trk.buf[s] = <<>>) =>
        /\ View(trk.log) = View(trk.done)
        /\ \A k \in DOMAIN trk.log : trk.log[k].ver = Null /\ trk.log[k].ct = CtA

\* C12: the operation log receives the operations of a session's mutations
\* only when that session commits, and a rollback discards only the
\* operations of the session that rolled back: no operation of a
\* rolled-back or uncommitted mutation is in the log, and every operation
\* queued for a committed mutation is.
C12_PerSessionQueue ==
    LET logged == {trk.log[k].id : k \in DOMAIN trk.log}
    IN  /\ logged \subseteq trk.committed
        /\ logged \cap trk.rolled = {}
        /\ \A s \in Sessions : \A k \in DOMAIN trk.buf[s] :
               trk.buf[s][k].id \notin logged
        /\ \A k \in DOMAIN trk.done :
               trk.done[k].queued => trk.done[k].id \in logged

\* the operations of the message run_push builds from the log
PushOps(log) == create_push_message([CIdle EXCEPT !.log = log], compress(log)).ops

----------------------------------------------------------------------------
(* SpecSync: one call of SyncClient.synchronize.  Each attempt is a        *)
(* connect_async of run_push or run_pull; what the attempt ends with is    *)
(* drawn from what the method, the server and the transport can produce.   *)

synOthers == <<server, handler, cmp, sgn, client, trk, mrg, wire, prf, txn,
              app>>

\* the exception classes the server closes a connection with, as
\* exception_as_dict names them in the close reason
WireExc == {"PullSuggested", "PushRejected", "SerializationFailure", "LookupError"}

\* exception_from_dict: the classes registered on the client are rebuilt,
\* a reason that holds the text of a serialization failure gives
\* SerializationError, anything else a plain Exception
exception_from_dict(w) ==
    CASE w \in {"PullSuggested", "PushRejected"} -> Exc(w, "close reason")
      [] w = "SerializationFailure" -> SerializationFailure
      [] OTHER -> Exc("Exception", w)

\* connect_async: what the caller gets, given what the method raised
\* (NoExc: it returned), the close code and the close reason
connect_async(raised, close_code, close_reason) ==
    IF close_code = 1001 THEN exception_from_dict(close_reason)
    ELSE IF close_code # 1000
    THEN Exc("ConnectionError", "connection terminated abnormally")
    ELSE raised

\* the ways a connection that runs run_push can end: the handler finished
\* and closed normally, the server closed with an exception, the
\* connection broke, a frame of the server was not JSON
PushEnds ==
    {<<NoExc, 1000, "none">>}
    \cup {<<NoExc, 1001, w>> : w \in WireExc}
    \cup {<<Exc("ConnectionClosedError", "no close frame"), 1006, "none">>,
          <<Exc("JSONDecodeError", "response"), 1000, "none">>}

\* the ways a connection that runs run_pull can end: merged, merge raised
\* UniqueConstraintError, the response was no PullMessage or no JSON, the
\* server closed with an exception, the connection broke
PullEnds ==
    {<<NoExc, 1000, "none">>,
     <<Exc("UniqueConstraintError", "entries"), 1000, "none">>,
     <<Exc("BadResponseError", "response object isn't a valid PullMessage"),
       1000, "none">>,
     <<Exc("JSONDecodeError", "response"), 1000, "none">>,
     <<Exc("ConnectionClosedOK", "closed"), 1001, "LookupError">>,
     <<Exc("ConnectionClosedOK", "closed"), 1001, "SerializationFailure">>,
     <<Exc("ConnectionClosedError", "no close frame"), 1006, "none">>}

\* a synchronize that returns the number of the round after the accepted one
AfterPush_next(s, ex) ==
    IF ex = NoExc
    THEN [s EXCEPT !.pc = "done", !.out = "returned", !.ret = s.round + 1]
    ELSE IF ex.type \in Retried
    THEN [s EXCEPT !.pc = "pull", !.exc = ex]
    ELSE [s EXCEPT !.pc = "done", !.out = "raised", !.exc = ex]

\* synchronize after the push attempt of the round ended with ex
AfterPush(s, ex) ==
    IF ex = NoExc
    THEN [s EXCEPT !.pc = "done", !.out = "returned", !.ret = s.round]
    ELSE IF ex.type \in Retried
    THEN [s EXCEPT !.pc = "pull", !.exc = ex]
    ELSE [s EXCEPT !.pc = "done", !.out = "raised", !.exc = ex]

\* a synchronize that goes to the next round whatever the pull ended with
AfterPull_swallow(s, ex) ==
    IF s.round + 1 < tries
    THEN [s EXCEPT !.pc = "push", !.round = @ + 1, !.exc = NoExc]
    ELSE [s EXCEPT !.pc = "done", !.out = "exhausted", !.exc = NoExc]

\* synchronize after the pull attempt of the round ended with ex
AfterPull(s, ex) ==
    IF ex # NoExc
    THEN [s EXCEPT !.pc = "done", !.out = "raised", !.exc = ex]
    ELSE IF s.round + 1 < tries
    THEN [s EXCEPT !.pc = "push", !.round = @ + 1, !.exc = NoExc]
    ELSE [s EXCEPT !.pc = "done", !.out = "exhausted", !.exc = NoExc]

SynInit ==
    /\ syn = SynIdle
    /\ wire = WireIdle
    /\ prf = PrfIdle
    /\ txn = TxnIdle
    /\ app = AppIdle
    /\ server = ServerIdle
    /\ handler = HandlerIdle
    /\ client = ClientIdle
    /\ cmp = CmpIdle
    /\ sgn = SgnIdle
    /\ trk = TrkIdle
    /\ mrg = MrgIdle

\* the application calls synchronize
SStart ==
    /\ syn.pc = "idle"
    /\ syn' = [syn EXCEPT !.pc = "push"]
    /\ UNCHANGED synOthers

\* the push attempt of the round
SPush(e) ==
    /\ syn.pc = "push"
    /\ LET ex == connect_async(e[1], e[2], e[3])
       IN  syn' = [AfterPush(syn, ex) EXCEPT
                      !.pushes = @ + 1,
                      !.last = [kind |-> "push", exc |-> ex]]
    /\ UNCHANGED synOthers

\* the pull attempt of the round
SPull(e) ==
    /\ syn.pc = "pull"
    /\ LET ex == connect_async(e[1], e[2], e[3])
       IN  syn' = [AfterPull(syn, ex) EXCEPT
                      !.pulls = @ + 1,
                      !.last = [kind |-> "pull", exc |-> ex]]
    /\ UNCHANGED synOthers

SynNext ==
    \/ SStart
    \/ \E e \in PushEnds : SPush(e)
    \/ \E e \in PullEnds : SPull(e)

SpecSync == SynInit /\ [][SynNext]_vars

\* every connection ends: an attempt under way is completed
SpecSyncFair == SpecSync /\ WF_vars(SynNext)

C14_Surfaced ==
    (\/ syn.last.kind = "push" /\ syn.last.exc.type = "PushRejected"
     \/ syn.last.kind = "pull" /\ syn.last.exc.type = "UniqueConstraintError") =>
        /\ syn.pc = "done"
        /\ syn.out = "raised"
        /\ syn.exc = syn.last.exc

\* a merge raised UniqueConstraintError in a round after the first
C14_Witness ==
    /\ syn.out = "raised"
    /\ syn.exc.type = "UniqueConstraintError"
    /\ syn.round > 0

\* the errors of the transport: the connection closed abnormally or
\* without an answer, the response was undecodable or invalid
TransportErrors ==
    {"ConnectionError", "ConnectionClosedError", "ConnectionClosedOK",
     "JSONDecodeError", "BadResponseError"}

\* C15: a push or pull attempt of synchronize that fails with an error of
\* the transport is not surfaced: synchronize goes on with its rounds.
C15_TransportRetried ==
    syn.out = "raised" => syn.exc.type \notin TransportErrors

----------------------------------------------------------------------------
(* SpecMerge: dbsync.client.pull.merge on a store with a foreign key.      *)
(* Model A has an integer primary key and a column; model B has an integer *)
(* primary key and a foreign key to A.  The client and the server start    *)
(* from the same synchronized store; the client then commits tracked       *)
(* changes, other nodes change the server, and the client merges the pull  *)
(* message of the server.                                                  *)

MaxA == 3         \* primary keys of A the nodes allocate: 1..MaxA
MaxB == 2         \* primary keys of B the nodes allocate: BBase+1..BBase+MaxB
BBase == 10       \* where the key sequence of B starts
MaxMergeOps == 2  \* changes on each side before the merge

CtB == "B"        \* content type of model B

\* the keys of A leave room for the ids merge moves colliding rows to
APks == 1 .. (MaxA + MaxMergeOps)
BPks == (BBase + 1) .. (BBase + MaxB + MaxMergeOps)
MKeys == APks \cup BPks

\* the value of a row of B is its foreign key
Ref(k) == "a" \o ToString(k)
Target(v) == CHOOSE k \in APks : Ref(k) = v
Refs == {Ref(k) : k \in 1 .. MaxA}

ModelOf(k) == IF k \in APks THEN CtA ELSE CtB
PksOf(ct) == IF ct = CtA THEN APks ELSE BPks

\* every foreign key of the store refers to a row of the store
FkResolved(rows) ==
    \A b \in BPks : rows[b] # Absent => rows[Target(rows[b])] # Absent

\* the stores a synchronized client and the server share to begin with
Bases ==
    {[k \in MKeys |-> IF k = 1 THEN "x"
                      ELSE IF k = 2 THEN a2
                      ELSE IF k = BBase + 1 THEN b1
                      ELSE Absent] :
        a2 \in {Absent, "y"}, b1 \in {Absent, Ref(1)}}

\* the largest primary key of the model in the store (0: no row)
MaxPk(rows, ct) ==
    LET used == {k \in PksOf(ct) : rows[k] # Absent}
    IN  IF used = {} THEN (IF ct = CtA THEN 0 ELSE BBase)
        ELSE CHOOSE k \in used : \A j \in used : j <= k

\* an operation of the harness: id names the Operation object while merge
\* rewrites its order, row_id and command
MOp(order, key, cmd, ver) ==
    [id |-> order, order |-> order, row |-> key, form |-> "uuid",
     ct |-> ModelOf(key), cmd |-> cmd, ver |-> ver]

\* a change a database with foreign keys enforced accepts: an insert under
\* the next key of the model, an update that modifies the row, a delete of
\* a row nothing refers to
Accepted(rows, cmd, key, v) ==
    /\ key \in APks => v \in Vals
    /\ key \in BPks => v \in Refs /\ rows[Target(v)] # Absent
    /\ CASE cmd = "i" -> /\ key = MaxPk(rows, ModelOf(key)) + 1
                         /\ key \in (1 .. MaxA) \cup ((BBase + 1) .. (BBase + MaxB))
           [] cmd = "u" -> rows[key] \notin {Absent, v}
           [] OTHER -> /\ rows[key] # Absent
                       /\ v = (IF key \in APks THEN "x" ELSE Ref(1))
                       /\ \A b \in BPks : rows[b] # Ref(key)

Changed(rows, cmd, key, v) ==
    [rows EXCEPT ![key] = IF cmd = "d" THEN Absent ELSE v]

mrgOthers == <<server, handler, cmp, sgn, client, trk, syn, wire, prf, txn, app>>

MrgInit ==
    /\ \E base \in Bases :
          mrg = [MrgIdle EXCEPT !.pc = "local", !.rows = base, !.srv = base]
    /\ server = ServerIdle
    /\ handler = HandlerIdle
    /\ client = ClientIdle
    /\ cmp = CmpIdle
    /\ sgn = SgnIdle
    /\ trk = TrkIdle
    /\ syn = SynIdle
    /\ wire = WireIdle
    /\ prf = PrfIdle
    /\ txn = TxnIdle
    /\ app = AppIdle

\* the application of the client commits a change and the tracker logs it
MLocal(cmd, key, v) ==
    /\ mrg.pc = "local"
    /\ Len(mrg.log) < MaxMergeOps
    /\ Accepted(mrg.rows, cmd, key, v)
    /\ mrg' = [mrg EXCEPT !.rows = Changed(mrg.rows, cmd, key, v),
                          !.log = Append(@, MOp(mrg.next, key, cmd, Null)),
                          !.next = @ + 1]
    /\ UNCHANGED mrgOthers

\* another node pushes a change: the server applies it in a new version
MRemote(cmd, key, v) ==
    /\ mrg.pc \in {"local", "remote"}
    /\ Len(mrg.pops) < MaxMergeOps
    /\ Accepted(mrg.srv, cmd, key, v)
    /\ mrg' = [mrg EXCEPT !.pc = "remote",
                          !.srv = Changed(mrg.srv, cmd, key, v),
                          !.pops = Append(@, MOp(Len(mrg.pops) + 1, key, cmd,
                                                 Len(mrg.pops) + 1))]
    /\ UNCHANGED mrgOthers

\* PullMessage.fill_for for the client at the base: the operations of the
\* versions it lacks, the rows the operations that are not deletes need,
\* as the server holds them now, and the rows those refer to
MPullMessage(srv, pops) ==
    LET own(k) == \E j \in DOMAIN pops : pops[j].row = k /\ pops[j].cmd # "d"
        needed(k) ==
            \/ own(k)
            \/ \E b \in BPks : own(b) /\ srv[b] # Absent /\ Target(srv[b]) = k
    IN  [ops |-> pops,
         payload |-> [k \in MKeys |-> IF needed(k) THEN srv[k] ELSE Absent],
         versions |-> {[version_id |-> pops[j].ver, node_id |-> Null] :
                          j \in DOMAIN pops}]

\* the conflicts of dbsync.client.conflicts, as pairs of the position of
\* the pulled operation and the id of the local one
find_direct_conflicts(pull_ops, unversioned_ops) ==
    {<<q[1], unversioned_ops[q[2]].id>> : q \in
        {q \in (DOMAIN pull_ops) \X (DOMAIN unversioned_ops) :
            /\ pull_ops[q[1]].row = unversioned_ops[q[2]].row
            /\ pull_ops[q[1]].ct = unversioned_ops[q[2]].ct}}

find_dependency_conflicts(pull_ops, unversioned_ops, rows) ==
    {<<q[1], unversioned_ops[q[2]].id>> : q \in
        {q \in (DOMAIN pull_ops) \X (DOMAIN unversioned_ops) :
            /\ pull_ops[q[1]].cmd = "d"
            /\ pull_ops[q[1]].ct = CtA
            /\ unversioned_ops[q[2]].cmd \in {"i", "u"}
            /\ unversioned_ops[q[2]].ct = CtB
            /\ rows[unversioned_ops[q[2]].row] # Absent
            /\ Target(rows[unversioned_ops[q[2]].row]) = pull_ops[q[1]].row}}

find_reversed_dependency_conflicts(pull_ops, unversioned_ops, payload) ==
    {<<q[1], unversioned_ops[q[2]].id>> : q \in
        {q \in (DOMAIN pull_ops) \X (DOMAIN unversioned_ops) :
            /\ unversioned_ops[q[2]].cmd = "d"
            /\ unversioned_ops[q[2]].ct = CtA
            /\ pull_ops[q[1]].cmd \in {"i", "u"}
            /\ pull_ops[q[1]].ct = CtB
            /\ payload[pull_ops[q[1]].row] # Absent
            /\ Target(payload[pull_ops[q[1]].row]) = unversioned_ops[q[2]].row}}

find_insert_conflicts(pull_ops, unversioned_ops) ==
    {<<q[1], unversioned_ops[q[2]].id>> : q \in
        {q \in (DOMAIN pull_ops) \X (DOMAIN unversioned_ops) :
            /\ pull_ops[q[1]].cmd = "i"
            /\ unversioned_ops[q[2]].cmd = "i"
            /\ pull_ops[q[1]].ct = unversioned_ops[q[2]].ct
            /\ pull_ops[q[1]].row = unversioned_ops[q[2]].row}}

\* extract: the local operations in conflict with the pulled one at i
extract(i, conflicts) == {q[2] : q \in {c \in conflicts : c[1] = i}}

\* the position in the list of the local operation with the id
PosOf(log, id) == CHOOSE j \in DOMAIN log : log[j].id = id

\* a purgelocal that leaves the operation in the log
purge_lists(st, id) ==
    LET exclude(conflicts) == {c \in conflicts : c[2] # id}
    IN  [st EXCEPT !.direct = exclude(@), !.dep = exclude(@),
                   !.rdep = exclude(@), !.ins = exclude(@)]

\* purgelocal with all it excludes the local operation from
purge(st, id) ==
    LET exclude(conflicts) == {c \in conflicts : c[2] # id}
    IN  [st EXCEPT !.log = SelectSeq(@, LAMBDA o : o.id # id),
                   !.direct = exclude(@), !.dep = exclude(@),
                   !.rdep = exclude(@), !.ins = exclude(@)]

\* perform of an operation with FK enforcement off
MPerformed(st, op, payload) ==
    LET res == perform_async(st.rows, op, payload)
    IN  [st EXCEPT !.rows = res.rows, !.err = res.err]

\* a merge that lets the pulled delete win over the local update
MDirect_purge(st, i) ==
    LET pull_op == st.pops[i]
        direct == extract(i, st.direct)
    IN  IF direct = {} THEN [st EXCEPT !.can = TRUE, !.rev = FALSE]
        ELSE LET id == CHOOSE id \in direct : TRUE
                 s0 == [st EXCEPT !.can = TRUE, !.rev = FALSE]
             IN  CASE pull_op.cmd = "u" /\ st.log[PosOf(st.log, id)].cmd = "u" ->
                          [s0 EXCEPT !.can = FALSE]
                   [] OTHER -> purge(s0, id)

\* a merge that applies the pulled update over the local one
MDirect_remote(st, i) ==
    LET pull_op == st.pops[i]
        direct == extract(i, st.direct)
    IN  IF direct = {} THEN [st EXCEPT !.can = TRUE, !.rev = FALSE]
        ELSE LET id == CHOOSE id \in direct : TRUE
                 j == PosOf(st.log, id)
                 local == st.log[j]
                 s0 == [st EXCEPT !.can = pull_op.cmd # "d", !.rev = FALSE]
             IN  CASE pull_op.cmd = "u" /\ local.cmd = "u" -> s0
                   [] pull_op.cmd = "u" /\ local.cmd = "d" ->
                          purge([s0 EXCEPT !.pops[i].cmd = "i"], id)
                   [] pull_op.cmd = "d" /\ local.cmd = "u" ->
                          [s0 EXCEPT !.log[j].cmd = "i", !.rev = TRUE]
                   [] OTHER -> purge(s0, id)

\* pull.py 187-203: the direct conflicts of the pulled operation at i
MDirect(st, i) ==
    LET pull_op == st.pops[i]
        direct == extract(i, st.direct)
    IN  IF direct = {} THEN [st EXCEPT !.can = TRUE, !.rev = FALSE]
        ELSE LET id == CHOOSE id \in direct : TRUE
                 j == PosOf(st.log, id)
                 local == st.log[j]
                 s0 == [st EXCEPT !.can = pull_op.cmd # "d", !.rev = FALSE]
             IN  CASE pull_op.cmd = "u" /\ local.cmd = "u" ->
                          [s0 EXCEPT !.can = FALSE]
                   [] pull_op.cmd = "u" /\ local.cmd = "d" ->
                          purge([s0 EXCEPT !.pops[i].cmd = "i"], id)
                   [] pull_op.cmd = "d" /\ local.cmd = "u" ->
                          [s0 EXCEPT !.log[j].cmd = "i", !.rev = TRUE]
                   [] OTHER -> purge(s0, id)

\* a merge that does not look at dependency conflicts
MDependency_none(st, i) == st

\* a merge that adds the insert without making way for it
MDependency_unshifted(st, i) ==
    LET pull_op == st.pops[i]
        dependency == extract(i, st.dep)
    IN  IF dependency = {} \/ st.rev THEN st
        ELSE LET order == CHOOSE n \in {st.log[j].order : j \in DOMAIN st.log} :
                              \A j \in DOMAIN st.log : n <= st.log[j].order
             IN  [st EXCEPT
                    !.can = FALSE,
                    !.added = Append(@, [id |-> 0, order |-> order,
                                         row |-> pull_op.row, form |-> "uuid",
                                         ct |-> pull_op.ct, cmd |-> "i",
                                         ver |-> Null])]

\* pull.py 205-219: the pulled delete of a row local rows depend on
MDependency(st, i) ==
    LET pull_op == st.pops[i]
        dependency == extract(i, st.dep)
    IN  IF dependency = {} \/ st.rev THEN st
        ELSE LET order == CHOOSE n \in {st.log[j].order : j \in DOMAIN st.log} :
                              \A j \in DOMAIN st.log : n <= st.log[j].order
             IN  [st EXCEPT
                    !.can = FALSE,
                    !.log = [j \in DOMAIN st.log |->
                                [st.log[j] EXCEPT !.order = @ + 1]],
                    !.added = Append(@, [id |-> 0, order |-> order,
                                         row |-> pull_op.row, form |-> "uuid",
                                         ct |-> pull_op.ct, cmd |-> "i",
                                         ver |-> Null])]

\* a merge that performs the insert of the deleted row but keeps the record
\* of its deletion in the log
MReversed_unpurged(st, i, payload) ==
    LET reversed_dependency == extract(i, st.rdep)
    IN  IF reversed_dependency = {} THEN st
        ELSE LET id == CHOOSE id \in reversed_dependency : TRUE
                 local == st.log[PosOf(st.log, id)]
             IN  MPerformed(st, [local EXCEPT !.cmd = "i"], payload)

\* pull.py 221-227: the local delete of a row pulled rows depend on
MReversed(st, i, payload) ==
    LET reversed_dependency == extract(i, st.rdep)
    IN  IF reversed_dependency = {} THEN st
        ELSE LET id == CHOOSE id \in reversed_dependency : TRUE
                 local == st.log[PosOf(st.log, id)]
                 done == MPerformed(st, [local EXCEPT !.cmd = "i"], payload)
             IN  IF done.err THEN done ELSE purge(done, id)

\* update_local_id: the row moves to new_id and the rows that refer to it
\* follow
update_local_id(rows, old_id, new_id, ct) ==
    [k \in MKeys |->
        IF k = new_id THEN rows[old_id]
        ELSE IF k = old_id THEN Absent
        ELSE IF ct = CtA /\ k \in BPks /\ rows[k] = Ref(old_id) THEN Ref(new_id)
        ELSE rows[k]]

\* pull.py 229-235: the local insert under the key of a pulled insert
MInsert(st, i, payload) ==
    LET pull_op == st.pops[i]
        insert == extract(i, st.ins)
    IN  IF insert = {} THEN st
        ELSE LET id == CHOOSE id \in insert : TRUE
                 j == PosOf(st.log, id)
                 local == st.log[j]
                 remote == MaxPk(payload, pull_op.ct)
                 here == MaxPk(st.rows, pull_op.ct)
                 next_id == (IF remote > here THEN remote ELSE here) + 1
             IN  [st EXCEPT
                    !.rows = update_local_id(st.rows, local.row, next_id, pull_op.ct),
                    !.log[j].row = next_id,
                    !.moved = @ \cup {<<local.row, next_id>>}]

\* pull.py 179-239: one turn of the loop over pull_ops
MTurn(st, i, payload) ==
    LET s1 == MDirect(st, i)
        s2 == MDependency(s1, i)
        s3 == MReversed(s2, i, payload)
        s4 == IF s3.err THEN s3 ELSE MInsert(s3, i, payload)
    IN  IF s4.err \/ ~s4.can THEN s4
        ELSE MPerformed(s4, s4.pops[i], payload)

RECURSIVE MLoop(_, _, _)
MLoop(st, i, payload) ==
    IF i > Len(st.pops) \/ st.err THEN st
    ELSE MLoop(MTurn(st, i, payload), i + 1, payload)

\* a merge whose changes stay when it raises
with_transaction_kept(before, after) == after

\* core.with_transaction: the session is committed, or rolled back when
\* the procedure raised
with_transaction(before, after) ==
    IF after.exc # NoExc THEN [before EXCEPT !.exc = after.exc] ELSE after

\* what merge leaves in the session once its loop over the pulled
\* operations stopped in e
merge_end(local, unversioned_ops, pull_message, unique_errors, e) ==
    IF unique_errors
    THEN [local EXCEPT !.log = unversioned_ops,
                       !.exc = Exc("UniqueConstraintError", "entries")]
    ELSE IF e.err
    THEN [local EXCEPT !.log = unversioned_ops,
                       !.exc = Exc("OperationError", "perform")]
    ELSE [rows |-> e.rows,
          log |-> SortSeq(e.added \o e.log, LAMBDA a, b : a.order < b.order),
          versions |-> local.versions \cup pull_message.versions,
          exc |-> NoExc, moved |-> e.moved,
          left |-> e.direct \cup e.dep \cup e.rdep \cup e.ins]

\* pull.merge inside its transaction: what the session holds when the
\* procedure ends, local being rows, log and versions before
merge_body(local, pull_message, unique_errors) ==
    LET unversioned_ops == compress(local.log)
        pull_ops == compressed_operations(pull_message.ops)
        start == [rows |-> local.rows, log |-> unversioned_ops, added |-> <<>>,
                  pops |-> pull_ops,
                  direct |-> find_direct_conflicts(pull_ops, unversioned_ops),
                  dep |-> find_dependency_conflicts(pull_ops, unversioned_ops,
                                                    local.rows),
                  rdep |-> find_reversed_dependency_conflicts(
                               pull_ops, unversioned_ops, pull_message.payload),
                  ins |-> find_insert_conflicts(pull_ops, unversioned_ops),
                  can |-> TRUE, rev |-> FALSE, err |-> FALSE, moved |-> {}]
        end == MLoop(start, 1, pull_message.payload)
    IN  merge_end(local, unversioned_ops, pull_message, unique_errors, end)

\* the client merges the pull message of the server; whether the detector
\* of unique conflicts reports an error is drawn
MMerge(unique_errors) ==
    /\ mrg.pc \in {"local", "remote"}
    /\ LET before == [rows |-> mrg.rows, log |-> mrg.log,
                      versions |-> mrg.versions, exc |-> NoExc, moved |-> {},
                      left |-> {}]
           message == MPullMessage(mrg.srv, mrg.pops)
           after == with_transaction(before,
                                     merge_body(before, message, unique_errors))
       IN  mrg' = [mrg EXCEPT !.pc = "merged", !.pre = before,
                              !.rows = after.rows, !.log = after.log,
                              !.versions = after.versions, !.exc = after.exc,
                              !.uerr = unique_errors, !.left = after.left]
    /\ UNCHANGED mrgOthers

MrgNext ==
    \/ \E cmd \in {"i", "u", "d"}, key \in MKeys, v \in Vals \cup Refs :
          MLocal(cmd, key, v)
    \/ \E cmd \in {"i", "u", "d"}, key \in MKeys, v \in Vals \cup Refs :
          MRemote(cmd, key, v)
    \/ \E unique_errors \in BOOLEAN : MMerge(unique_errors)

SpecMerge == MrgInit /\ [][MrgNext]_vars

\* the command the compressed operations of a log hold for the row
CmdOn(ops, r) ==
    IF \E j \in DOMAIN ops : ops[j].row = r
    THEN ops[CHOOSE j \in DOMAIN ops : ops[j].row = r].cmd
    ELSE NoCmd

PulledCmd(r) == CmdOn(compressed_operations(mrg.pops), r)
LocalCmd(r) == CmdOn(compress(mrg.pre.log), r)

\* the merge ran to its end
Merged == mrg.pc = "merged" /\ mrg.exc = NoExc

\* C16: when the pull message carries a delete of row r and the client has
\* an unversioned update of r (both after compression), after the merge r
\* exists locally with its local values, the delete was not applied, and
\* the one local operation on r is an unversioned insert.
C16_DeleteVsUpdate ==
    Merged =>
        \A r \in MKeys :
            (PulledCmd(r) = "d" /\ LocalCmd(r) = "u") =>
                /\ mrg.rows[r] # Absent
                /\ mrg.rows[r] = mrg.pre.rows[r]
                /\ \E j \in DOMAIN mrg.log :
                      /\ mrg.log[j].row = r
                      /\ mrg.log[j].cmd = "i"
                      /\ mrg.log[j].ver = Null
                      /\ \A k \in DOMAIN mrg.log : mrg.log[k].row = r => k = j

\* a merge met a pulled delete of a row with a local unversioned update
C16_Witness ==
    /\ Merged
    /\ \E r \in MKeys : PulledCmd(r) = "d" /\ LocalCmd(r) = "u"

\* the id of the local unversioned operation on row r before the merge
LocalId(r) ==
    LET ops == compress(mrg.pre.log)
    IN  ops[CHOOSE j \in DOMAIN ops : ops[j].row = r].id

\* C28: when the pull message carries an update of row r and the client
\* has an unversioned update of r (both after compression), after the merge
\* r has its local values, the pulled update was not applied, and the local
\* update is still in the log, unversioned.
C28_UpdateVsUpdate ==
    Merged =>
        \A r \in MKeys :
            (PulledCmd(r) = "u" /\ LocalCmd(r) = "u") =>
                /\ mrg.rows[r] # Absent
                /\ mrg.rows[r] = mrg.pre.rows[r]
                /\ \E j \in DOMAIN mrg.log :
                      /\ mrg.log[j].id = LocalId(r)
                      /\ mrg.log[j].row = r
                      /\ mrg.log[j].cmd = "u"
                      /\ mrg.log[j].ver = Null

\* a merge met a pulled update of a row with a local unversioned update
\* that gave the row other values
C28_Witness ==
    /\ Merged
    /\ \E r \in MKeys :
          /\ PulledCmd(r) = "u" /\ LocalCmd(r) = "u"
          /\ mrg.pre.rows[r] # mrg.srv[r]

\* C29: when the pull message carries an update of row r and the client
\* has an unversioned delete of r (both after compression), after the merge
\* r exists locally again in the state the pull payload gives it, and the
\* local delete is gone from the log and from every conflict list.
C29_UpdateVsDelete ==
    Merged =>
        \A r \in MKeys :
            (PulledCmd(r) = "u" /\ LocalCmd(r) = "d") =>
                /\ mrg.rows[r] # Absent
                /\ mrg.rows[r] = MPullMessage(mrg.srv, mrg.pops).payload[r]
                /\ \A j \in DOMAIN mrg.log : mrg.log[j].id # LocalId(r)
                /\ \A c \in mrg.left : c[2] # LocalId(r)

\* a merge met a pulled update of a row the client had deleted
C29_Witness ==
    /\ Merged
    /\ \E r \in MKeys :
          /\ PulledCmd(r) = "u" /\ LocalCmd(r) = "d"
          /\ mrg.pre.rows[r] = Absent
          /\ mrg.rows[r] # Absent

\* the rows whose pulled delete meets a dependency conflict in the merge:
\* a local unversioned insert or update of a row that refers to them, the
\* delete not reverted by a local update of the row itself
DepRows ==
    LET pull_ops == compressed_operations(mrg.pops)
        unversioned_ops == compress(mrg.pre.log)
        dep == find_dependency_conflicts(pull_ops, unversioned_ops, mrg.pre.rows)
    IN  {pull_ops[c[1]].row : c \in dep} \ {r \in MKeys : LocalCmd(r) = "u"}

\* the positions of the log with the insert the merge added for row r
Reinserts(r) ==
    {j \in DOMAIN mrg.log :
        /\ mrg.log[j].id = 0
        /\ mrg.log[j].row = r
        /\ mrg.log[j].cmd = "i"
        /\ mrg.log[j].ver = Null}

\* the local operations that were there before keep their relative order,
\* and no two operations of the log have the same order
OrderKept ==
    LET old == compress(mrg.pre.log)
    IN  /\ \A a, b \in DOMAIN old :
              \A j, k \in DOMAIN mrg.log :
                  (/\ mrg.log[j].id = old[a].id
                   /\ mrg.log[k].id = old[b].id
                   /\ old[a].order < old[b].order) =>
                      mrg.log[j].order < mrg.log[k].order
        /\ \A j, k \in DOMAIN mrg.log :
              j # k => mrg.log[j].order # mrg.log[k].order

\* C30 as stated: when a pulled delete of row r meets a dependency conflict
\* and is not reverted, the merge does not delete r and adds one
\* unversioned insert for r whose order is strictly smaller than the order
\* of every other local unversioned operation; the operations that were
\* there keep their relative order and all orders are distinct.
C30_ReinsertFirst ==
    Merged =>
        /\ \A r \in DepRows :
              /\ mrg.rows[r] # Absent
              /\ Cardinality(Reinserts(r)) = 1
              /\ \A j \in Reinserts(r) : \A k \in DOMAIN mrg.log :
                    k # j => mrg.log[j].order < mrg.log[k].order
        /\ DepRows # {} => OrderKept

\* C30 amended: the insert added for r has an order strictly smaller than
\* the order of every local operation that was there before the merge;
\* the inserts one merge adds for several rows follow each other in the
\* order of the pulled deletes.
C30_ReinsertBeforeOld ==
    Merged =>
        /\ \A r \in DepRows :
              /\ mrg.rows[r] # Absent
              /\ mrg.rows[r] = mrg.pre.rows[r]
              /\ Cardinality(Reinserts(r)) = 1
              /\ \A j \in Reinserts(r) : \A k \in DOMAIN mrg.log :
                    mrg.log[k].id # 0 => mrg.log[j].order < mrg.log[k].order
        /\ DepRows # {} => OrderKept

\* a merge met dependency conflicts of two pulled deletes and added an
\* insert for either row
C30_Witness ==
    /\ Merged
    /\ Cardinality(DepRows) = 2
    /\ \A r \in DepRows : Reinserts(r) # {}
    /\ Len(mrg.log) = 4

\* the pairs of a row r of A the client deleted, unversioned, and a row b
\* of B that a pulled insert or update carries with a reference to r
RevPairs ==
    LET payload == MPullMessage(mrg.srv, mrg.pops).payload
    IN  {q \in APks \X BPks :
            /\ LocalCmd(q[1]) = "d"
            /\ PulledCmd(q[2]) \in {"i", "u"}
            /\ payload[q[2]] = Ref(q[1])}

\* the local delete of r is undone: r is there in the state of the pull
\* message and the log holds no delete of r
Undeleted(r) ==
    /\ mrg.rows[r] # Absent
    /\ mrg.rows[r] = MPullMessage(mrg.srv, mrg.pops).payload[r]
    /\ \A j \in DOMAIN mrg.log :
          /\ mrg.log[j].id # LocalId(r)
          /\ ~(mrg.log[j].row = r /\ mrg.log[j].cmd = "d")

\* C31 as stated: when the client has an unversioned delete of row r and a
\* pulled insert or update carries a row b that references r, after the
\* merge r exists locally again in the state of the pull message, the local
\* delete of r is gone from the log, and the pulled row b is stored.
C31_ReversedDependency ==
    Merged =>
        \A q \in RevPairs :
            /\ Undeleted(q[1])
            /\ mrg.rows[q[2]] = MPullMessage(mrg.srv, mrg.pops).payload[q[2]]

\* C31 amended: r is restored and its delete is gone; the pulled row b is
\* stored unless the client has an unversioned update of b itself, which
\* wins over the pulled update and keeps the local values of b.
C31_ReversedDependencyLocalWins ==
    Merged =>
        \A q \in RevPairs :
            /\ Undeleted(q[1])
            /\ IF PulledCmd(q[2]) = "u" /\ LocalCmd(q[2]) = "u"
               THEN mrg.rows[q[2]] = mrg.pre.rows[q[2]]
               ELSE mrg.rows[q[2]] =
                        MPullMessage(mrg.srv, mrg.pops).payload[q[2]]

\* a merge met a pulled row that refers to a row the client had deleted,
\* restored the deleted row and stored the pulled one
C31_Witness ==
    /\ Merged
    /\ \E q \in RevPairs :
          /\ mrg.pre.rows[q[1]] = Absent
          /\ mrg.rows[q[1]] # Absent
          /\ mrg.rows[q[2]] = Ref(q[1])
          /\ mrg.pre.rows[q[2]] # Ref(q[1])

\* the rows of B that referred to the row of A under key k before the merge
Children(k) == {b \in BPks : mrg.pre.rows[b] = Ref(k)}

C19_UniqueErrorAborts ==
    (mrg.pc = "merged" /\ mrg.uerr) =>
        /\ mrg.exc.type = "UniqueConstraintError"
        /\ mrg.rows = mrg.pre.rows
        /\ mrg.log = mrg.pre.log
        /\ mrg.versions = mrg.pre.versions

\* a unique_error was reported to a merge with pulled operations whose
\* compression changes the local log
C19_Witness ==
    /\ mrg.pc = "merged"
    /\ mrg.uerr
    /\ mrg.pops # <<>>
    /\ compress(mrg.pre.log) # mrg.pre.log

----------------------------------------------------------------------------
(* Version ids over the pushes and pulls of the client nodes (Spec)        *)

\* C20: the version ids a client node learns, from the results of its
\* pushes and from pull messages, grow strictly in the order it learns
\* them, and the server never issues the same version id twice: every
\* Version a node adds has an id above all it holds, and every id a
\* handler takes is above all ids taken before.
C20_VersionMonotonic ==
    [][/\ \A c \in Clients :
             \A new \in client'[c].versions \ client[c].versions :
                 \A old \in client[c].versions :
                     new.version_id > old.version_id
       /\ \A h \in Slots :
             (handler'[h].version # handler[h].version
                 /\ handler'[h].version # Null) =>
                 /\ handler'[h].version > server.seq
                 /\ server'.seq = handler'[h].version
                 /\ \A x \in server.versions :
                       x.version_id < handler'[h].version
                 /\ \A g \in Slots \ {h} :
                       handler[g].version # handler'[h].version]_vars

\* a node holds a Version it learned from the result of a push and a later
\* one it learned from a pull message
C20_Witness ==
    \E c \in Clients :
        \E x, y \in client[c].versions :
            /\ x.node_id = Null
            /\ y.node_id # Null
            /\ x.version_id < y.version_id

----------------------------------------------------------------------------
(* dbsync.server.tracking: direct edits of the server database             *)

\* the listener make_listener builds, called after the flush of a mutation
\* of a tracked row in a session of the application: nothing is recorded
\* when before_tracking_fn raises SkipOperation; otherwise the listener's
\* own session commits one new Version, without a node, and one Operation
\* linked to it
listener(srv, r, command, skip) ==
    IF skip THEN srv
    ELSE [srv EXCEPT
            !.seq = @ + 1,
            !.versions = @ \cup {[version_id |-> srv.seq + 1, node_id |-> Null]},
            !.ops = Append(@, Op(r, command, srv.seq + 1))]

\* the application inserts, updates or deletes row r of the server
\* database and commits
SEdit(r, command, v, skip) ==
    /\ server.seq < MaxVersion
    /\ CASE command = "i" -> server.rows[r] = Absent
         [] command = "u" -> server.rows[r] \notin {Absent, v}
         [] OTHER -> server.rows[r] # Absent
    /\ server' = [listener(server, r, command, skip) EXCEPT
                    !.rows[r] = IF command = "d" THEN Absent ELSE v]
    /\ UNCHANGED <<handler, cmp, sgn, client, trk, mrg, syn, wire, prf, txn, app>>

\* the messages SpecServer delivers: those of node 1 that the checks let
\* through, with at most one operation and a payload that holds every row
\* with one content
SrvInputs ==
    {m \in {[node_id |-> 1, secret |-> NoSecret,
             key |-> Sha512(s \o Portion(ops)), latest |-> l,
             ops |-> ops, payload |-> [r \in RowIds |-> v]] :
                s \in Secrets, l \in 0 .. MaxVersion, v \in Vals,
                ops \in UNION {[1 .. n -> WireOps] : n \in 0 .. 1}} :
        Receive(HIdle, m, server).pc = "perform"}

\* SpecServer: pushes and direct edits on a database that earlier pushes
\* filled; two more version ids can be given
SrvInit ==
    /\ \E s \in Stores, k \in 0 .. MaxVersion - 2 :
          /\ k = 0 <=> s = EmptyStore
          /\ s[MaxRow] = Absent
          /\ server = [PastServer(s, k) EXCEPT !.nodes = <<"k1", "k2">>,
                                               !.seq = MaxVersion - 2]
    /\ handler = HandlerIdle
    /\ client = ClientIdle
    /\ trk = TrkIdle
    /\ mrg = MrgIdle
    /\ syn = SynIdle
    /\ wire = WireIdle
    /\ prf = PrfIdle
    /\ txn = TxnIdle
    /\ app = AppIdle
    /\ cmp = CmpIdle
    /\ sgn = SgnIdle

SrvNext ==
    \/ HBegin(1, SrvInputs)
    \/ HPerform(1)
    \/ HVersion(1)
    \/ HCommit(1)
    \/ HCancel(1)
    \/ HClose(1)
    \/ \E r \in RowIds, command \in {"i", "u", "d"}, v \in Vals, skip \in BOOLEAN :
          SEdit(r, command, v, skip)

SpecServer == SrvInit /\ [][SrvNext]_vars

\* C21: every Operation of the server log has a version_id that is not
\* null and is the id of a Version of the server, for the operations a push
\* copied and for those the tracking of direct edits recorded.
C21_ServerOpsVersioned ==
    \A i \in DOMAIN server.ops :
        /\ server.ops[i].ver # Null
        /\ \E x \in server.versions : x.version_id = server.ops[i].ver

\* the log holds an operation a direct edit recorded and, after it, one a
\* push copied
C21_Witness ==
    \E i, j \in DOMAIN server.ops :
        /\ i < j
        /\ \E x \in server.versions :
              x.version_id = server.ops[i].ver /\ x.node_id = Null
        /\ \E y \in server.versions :
              y.version_id = server.ops[j].ver /\ y.node_id # Null
        /\ handler[1].committed
        /\ handler[1].version = server.ops[j].ver

----------------------------------------------------------------------------
(* Operations of a client that have a version                              *)

\* C22: once an operation of a client's log has a version_id, no later
\* step (push, pull, merge) changes any of its fields: the version_id is
\* given at most once and stays the id of the push that carried the
\* operation.
C22_VersionedFrozen ==
    [][\A c \in Clients :
          \A k \in DOMAIN client[c].log :
              \A j \in DOMAIN client'[c].log :
                  (/\ client[c].log[k].ver # Null
                   /\ client'[c].log[j].order = client[c].log[k].order) =>
                      client'[c].log[j] = client[c].log[k]]_vars

----------------------------------------------------------------------------
(* SpecHook: handle_push on a server whose models have before-operation    *)
(* hooks.  skip tells that the hook of the operation raises SkipOperation. *)

\* a hook whose SkipOperation is caught after the operation was applied
perform_hooked_late(rows, op, payload, skip) == perform_async(rows, op, payload)

\* Operation.perform_async with hooks: call_before_operation_fn runs where
\* the operation is about to take effect, and SkipOperation leaves
\* res = (None, None) and the session as it was
perform_hooked(rows, op, payload, skip) ==
    LET res == perform_async(rows, op, payload)
    IN  IF skip /\ res.took THEN PerformResult(rows, FALSE, FALSE) ELSE res

\* one turn of the operations loop of handle_push on such a server
OperationsTurn(h, skip) ==
    LET op == h.msg.ops[h.idx]
        reached == perform_async(h.rows, op, h.msg.payload).took
        res == perform_hooked(h.rows, op, h.msg.payload, skip)
    IN  IF ~tracked_model(op) THEN [h EXCEPT !.idx = @ + 1]
        ELSE IF res.err THEN Raise(h, Exc("PushRejected", OperationReason))
        ELSE [h EXCEPT !.rows = res.rows,
                       !.idx = @ + 1,
                       !.post = IF res.took THEN Append(@, op) ELSE @,
                       !.skipped = IF skip /\ reached THEN @ \cup {h.idx} ELSE @]

\* call_after_operation_fn: the operations whose after hook handle_push
\* calls, once the version and the copies are flushed
AfterOperation(h) == IF h.pc \in {"sent", "closed"} /\ h.sent THEN h.post ELSE <<>>

\* the next operation of the message is performed
HPerformHooked(h, skip) ==
    /\ handler[h].pc = "perform"
    /\ handler[h].idx <= Len(handler[h].msg.ops)
    /\ handler' = [handler EXCEPT ![h] = OperationsTurn(@, skip)]
    /\ UNCHANGED <<server, cmp, sgn, client, trk, mrg, syn, wire, prf, txn, app>>

\* the messages SpecHook delivers: those of node 1 that the checks let
\* through
HookInputs ==
    {m \in {[node_id |-> 1, secret |-> NoSecret,
             key |-> Sha512(s \o Portion(ops)), latest |-> l,
             ops |-> ops, payload |-> pl] :
                s \in Secrets, l \in 0 .. MaxVersion, pl \in Stores,
                ops \in WireOpSeqs} :
        Receive(HIdle, m, server).pc = "perform"}

HookNext ==
    \/ HBegin(1, HookInputs)
    \/ \E skip \in BOOLEAN : HPerformHooked(1, skip)
    \/ HVersion(1)
    \/ HCommit(1)
    \/ HCancel(1)
    \/ HClose(1)

SpecHook == PushInit /\ [][HookNext]_vars

\* the operations of the message of h at the positions in set
RECURSIVE Without(_, _, _)
Without(ops, set, k) ==
    IF k > Len(ops) THEN <<>>
    ELSE IF k \in set THEN Without(ops, set, k + 1)
    ELSE <<ops[k]>> \o Without(ops, set, k + 1)

\* C24: in a push, an operation whose before hook raises SkipOperation
\* leaves the rows of the server as they were, does not join the operations
\* that are copied to the log under the new version, and gets no
\* after-operation hook; the loop goes on, and the other operations of the
\* message are applied and versioned as they are without it.
C24_SkippedOperation ==
    [][LET H == handler[1]
           G == handler'[1]
           rest == Without(H.msg.ops, H.skipped, 1)
       IN  /\ (H.pc = "perform" /\ G.skipped # H.skipped) =>
                 /\ G.skipped = H.skipped \cup {H.idx}
                 /\ G.rows = H.rows
                 /\ G.post = H.post
                 /\ G.pc = "perform"
                 /\ G.idx = H.idx + 1
           /\ (H.pc = "perform" /\ G.pc = "sent") =>
                 /\ AfterOperation(G) = G.post
                 /\ \A k \in DOMAIN G.post :
                       \E j \in DOMAIN rest : rest[j] = G.post[k]
                 /\ G.rows = PerformAll(H.pre.rows, rest, H.msg.payload).rows
                 /\ Len(G.post) <= Len(H.msg.ops) - Cardinality(H.skipped)
                 /\ G.post # <<>> => G.version # Null
           /\ (H.pc = "sent" /\ G.committed) =>
                 /\ server'.rows = H.rows
                 /\ server'.ops = server.ops \o Versioned(H.post, H.version)]_vars

\* a push of two operations has committed a version: the hook skipped one
\* operation, the other took effect
C24_Witness ==
    /\ handler[1].committed
    /\ Len(handler[1].msg.ops) = 2
    /\ Cardinality(handler[1].skipped) = 1
    /\ Len(handler[1].post) = 1
    /\ handler[1].version # Null
    /\ handler[1].rows # handler[1].pre.rows

----------------------------------------------------------------------------
(* dbsync.server.wsserver.handle_pull                                      *)

\* a handler that records the request as a Version
handle_pull_logged(srv, valid, latest) ==
    [srv |-> [srv EXCEPT !.versions = @ \cup {[version_id |-> srv.seq + 1,
                                                node_id |-> Null]},
                         !.seq = @ + 1],
     exc |-> NoExc,
     message |-> fill_for(srv, latest)]

\* handle_pull on the database srv: a request that is not a valid
\* PullRequestMessage raises PullRejected; otherwise the PullMessage is
\* filled for the request and sent.  No session writes and none commits
handle_pull(srv, valid, latest) ==
    IF ~valid
    THEN [srv |-> srv,
          exc |-> Exc("PullRejected", "request object isn't a valid PullRequestMessage"),
          message |-> fill_for(ServerIdle, Null)]
    ELSE [srv |-> srv, exc |-> NoExc, message |-> fill_for(srv, latest)]

\* a connection to /pull on slot h delivers a request: pre is the database
\* the handler found, msg holds the operations and the payload it sent
HPull(h, valid, latest) ==
    /\ handler[h].pc = "idle"
    /\ LET res == handle_pull(server, valid, latest)
       IN  /\ server' = res.srv
           /\ handler' = [handler EXCEPT ![h] =
                   [HIdle EXCEPT !.pc = "closed", !.pre = server,
                                 !.msg.latest = latest,
                                 !.msg.ops = res.message.ops,
                                 !.msg.payload = res.message.payload,
                                 !.sent = res.exc = NoExc,
                                 !.exc = res.exc]]
    /\ UNCHANGED <<cmp, sgn, client, trk, mrg, syn, wire, prf, txn, app>>

\* SpecPull: pull requests on a database that pushes and direct edits fill
PullNext ==
    \/ \E valid \in BOOLEAN, latest \in 0 .. MaxVersion : HPull(2, valid, latest)
    \/ HClose(2)
    \/ \E r \in RowIds, command \in {"i", "u", "d"}, v \in Vals, skip \in BOOLEAN :
          SEdit(r, command, v, skip)

SpecPull == PushInit /\ [][PullNext]_vars

\* C25: handling a pull request changes nothing on the server: rows,
\* versions and operation log are the same before and after handle_pull,
\* for every request.
C25_PullReadOnly ==
    [][handler'[2].pc = "closed" /\ handler[2].pc = "idle" =>
          /\ server'.rows = server.rows
          /\ server'.versions = server.versions
          /\ server'.ops = server.ops
          /\ server' = handler'[2].pre]_vars

\* a pull request was answered with a message that carries operations, on
\* a database that holds rows
C25_Witness ==
    /\ handler[2].pc = "closed"
    /\ handler[2].sent
    /\ handler[2].msg.ops # <<>>
    /\ handler[2].msg.latest # Null
    /\ server.rows # EmptyStore
    /\ server = handler[2].pre

----------------------------------------------------------------------------
(* SpecWire: an exception of a server handler on its way to the caller of  *)
(* connect_async.  An exception is its class name and its args; of an      *)
(* argument the model keeps whether it is a str and the length of          *)
(* str(arg), taken as free of characters that JSON escapes.  A close       *)
(* reason is the JSON text sent: its length, whether it was cut, and the   *)
(* class name and the argument lengths it carries.                         *)

MaxArgs == 2          \* arguments of an exception
DictLimit == 124      \* exception_as_dict: the dict is kept below this length
ArgLimit == 100       \* exception_as_dict: characters kept of the joined args
ReasonLimit == 123    \* service: characters kept of the close reason

wireOthers == <<server, handler, cmp, sgn, client, trk, mrg, syn, prf, txn,
               app>>

\* the classes wsclient registers with register_exception
registered_exceptions == {"PushRejected", "PullSuggested"}

\* the classes a handler raises here, and the arguments it gives them
Raisable == registered_exceptions \cup {"ValueError"}
ArgLens == {5, 45, 90}
Args == [str : BOOLEAN, len : ArgLens]
ArgLists == UNION {[1 .. n -> Args] : n \in 0 .. MaxArgs}

RECURSIVE SumLen(_)
SumLen(lens) == IF lens = <<>> THEN 0 ELSE Head(lens) + SumLen(Tail(lens))

Min(a, b) == IF a < b THEN a ELSE b

\* len(json.dumps(dict(type=klass, args=[...]))), the args given by their
\* lengths: {"type": "K", "args": ["a", "b"]}
DumpLen(klass, lens) ==
    24 + Len(klass) + SumLen(lens) + 2 * Len(lens)
       + (IF Len(lens) > 1 THEN 2 * (Len(lens) - 1) ELSE 0)

\* len(json.dumps(dict(type="exception", extype=klass, args=[argstr])))
DumpLenStripped(klass, n) == 49 + Len(klass) + n

\* exception_as_dict: the dict of class name and str(arg)s when its JSON
\* text is shorter than 124, else the class name and the first 100
\* characters of ",".join(ex.args), which raises TypeError when an argument
\* is not a str
exception_as_dict(ex) ==
    LET lens == [k \in DOMAIN ex.args |-> ex.args[k].len]
        joined == SumLen(lens) + (IF Len(lens) > 1 THEN Len(lens) - 1 ELSE 0)
    IN  IF DumpLen(ex.type, lens) < DictLimit
        THEN [raised |-> "none", kind |-> "plain", klass |-> ex.type, args |-> lens]
        ELSE IF \E k \in DOMAIN ex.args : ~ex.args[k].str
        THEN [raised |-> "TypeError", kind |-> "none", klass |-> "none", args |-> <<>>]
        ELSE [raised |-> "none", kind |-> "exception", klass |-> ex.type,
              args |-> <<Min(joined, ArgLimit)>>]

\* json.dumps(exdict)[:123]
close_reason(exdict) ==
    LET full == IF exdict.kind = "plain" THEN DumpLen(exdict.klass, exdict.args)
                ELSE DumpLenStripped(exdict.klass, exdict.args[1])
    IN  [len |-> Min(full, ReasonLimit), cut |-> full > ReasonLimit,
         klass |-> exdict.klass, args |-> exdict.args]

\* GenericWSServer.service after the handler raised ex: the close frame.
\* When exception_as_dict raises in turn, service does not close: the
\* exception leaves it and the connection ends as failed (code 1011)
service(ex) ==
    LET exdict == exception_as_dict(ex)
    IN  IF exdict.raised # "none"
        THEN [code |-> 1011, reason |-> WireIdle.reason]
        ELSE [code |-> 1001, reason |-> close_reason(exdict)]

\* exception_from_dict on the text of a close reason: a text that was cut
\* is not JSON, no class name is found and a plain Exception comes back;
\* else the class of that name is looked up among the registered ones and
\* built with the args
exception_from_text(reason) ==
    IF reason.cut THEN Exc("Exception", "general Exception")
    ELSE IF reason.klass \in registered_exceptions THEN Exc(reason.klass, "close reason")
    ELSE Exc("Exception", reason.klass)

\* connect_async when the action returned: what its finally block raises
connect_async_closed(close_code, close_reason_) ==
    IF close_code = 1001 THEN exception_from_text(close_reason_)
    ELSE IF close_code # 1000
    THEN Exc("ConnectionError", "connection terminated abnormally")
    ELSE NoExc

WireInit ==
    /\ wire = WireIdle
    /\ prf = PrfIdle
    /\ txn = TxnIdle
    /\ app = AppIdle
    /\ server = ServerIdle
    /\ handler = HandlerIdle
    /\ client = ClientIdle
    /\ cmp = CmpIdle
    /\ sgn = SgnIdle
    /\ trk = TrkIdle
    /\ mrg = MrgIdle
    /\ syn = SynIdle

\* the handler of a connection raises ex; service closes the connection
WRaise(ex) ==
    /\ wire.pc = "idle"
    /\ wire' = [wire EXCEPT !.pc = "closed", !.ex = ex,
                            !.code = service(ex).code,
                            !.reason = service(ex).reason]
    /\ UNCHANGED wireOthers

\* connect_async of the client ends
WConnect ==
    /\ wire.pc = "closed"
    /\ wire' = [wire EXCEPT !.pc = "raised",
                            !.got = connect_async_closed(wire.code, wire.reason)]
    /\ UNCHANGED wireOthers

\* the next connection
WReset ==
    /\ wire.pc = "raised"
    /\ wire' = WireIdle
    /\ UNCHANGED wireOthers

WireNext ==
    \/ \E type \in Raisable, args \in ArgLists : WRaise([type |-> type, args |-> args])
    \/ WConnect
    \/ WReset

SpecWire == WireInit /\ [][WireNext]_vars

\* C26: an exception of a registered class (PushRejected, PullSuggested)
\* that a server handler raises closes the connection with a reason of at
\* most 123 characters, and connect_async raises an exception of the same
\* class on the client, whatever the arguments: short or long, str or not.
C26_SameClassOnClient ==
    (wire.pc = "raised" /\ wire.ex.type \in registered_exceptions) =>
        /\ wire.code = 1001
        /\ wire.reason.len <= ReasonLimit
        /\ wire.got.type = wire.ex.type

----------------------------------------------------------------------------
(* SpecFilter: handle_push on messages that hold operations of a content   *)
(* type the server does not track.                                         *)

CtZ == "Z"                \* a content type without tracked model on the server

\* operations as they arrive, those of model A and of the other type
FilterOps ==
    WireOps \cup {[uuidstr(Op(1, c, Null)) EXCEPT !.ct = CtZ] : c \in {"i", "u", "d"}}

\* the messages SpecFilter delivers: those of node 1 that the checks let
\* through
FilterInputs ==
    {m \in {[node_id |-> 1, secret |-> NoSecret,
             key |-> Sha512(s \o Portion(ops)), latest |-> l,
             ops |-> ops, payload |-> pl] :
                s \in Secrets, l \in 0 .. MaxVersion, pl \in Stores,
                ops \in UNION {[1 .. n -> FilterOps] : n \in 0 .. MaxMsgOps}} :
        Receive(HIdle, m, server).pc = "perform"}

FilterNext ==
    \/ HBegin(1, FilterInputs)
    \/ HPerform(1)
    \/ HVersion(1)
    \/ HCommit(1)
    \/ HCancel(1)
    \/ HClose(1)

SpecFilter == PushInit /\ [][FilterNext]_vars

\* the operations of a message that are not of the other type
Tracked(ops) == SelectSeq(ops, LAMBDA o : o.ct # CtZ)

\* the message of H holds an operation of the other type
HasUntracked(H) == \E k \in DOMAIN H.msg.ops : H.msg.ops[k].ct = CtZ

\* C27 as stated: a push message that holds an operation whose content
\* type is not tracked on the server is rejected as a whole: none of its
\* operations is applied and no Version is created.
C27_UntrackedRejected ==
    LET H == handler[1]
    IN  (H.pc # "idle" /\ HasUntracked(H)) =>
            /\ H.post = <<>>
            /\ H.rows = H.pre.rows
            /\ H.version = Null
            /\ ~H.committed

\* C27 amended: the operations of a push message whose content type is not
\* tracked on the server are left out and the message is handled as if it
\* did not hold them: they are neither applied nor copied to the log, the
\* others are applied and versioned, the push is refused for an operation
\* only when one of the others cannot be performed, and no Version is
\* created when nothing took effect.
C27_UntrackedFiltered ==
    LET H == handler[1]
        rest == PerformAll(H.pre.rows, Tracked(H.msg.ops), H.msg.payload)
    IN  /\ \A k \in DOMAIN H.post : H.post[k].ct # CtZ
        /\ \A k \in DOMAIN server.ops : server.ops[k].ct # CtZ
        /\ H.exc = Exc("PushRejected", OperationReason) => rest.err
        /\ H.sent =>
              /\ ~rest.err
              /\ H.rows = rest.rows
              /\ H.version # Null <=> H.post # <<>>
        /\ H.committed => server.rows = H.rows

\* a push that held an operation without tracked model and one of model A
\* has committed a version with the effect of the latter
C27_Witness ==
    /\ handler[1].committed
    /\ HasUntracked(handler[1])
    /\ handler[1].post # <<>>
    /\ handler[1].version # Null
    /\ handler[1].rows # handler[1].pre.rows
    /\ server.rows = handler[1].rows

----------------------------------------------------------------------------
(* SpecPerform: Operation.perform_async applied to a store, one operation  *)
(* after the other, each with a container message of its own.             *)

MaxPerform == 2       \* operations applied in a row

prfOthers == <<server, handler, cmp, sgn, client, trk, mrg, syn, wire, txn, app>>

\* the operations a message can hold for the store
PerformOps == [row : RowIds, cmd : {"i", "u", "d"}, ct : {CtA, CtZ}]

PrfInit ==
    /\ \E rows \in Stores : prf = [PrfIdle EXCEPT !.rows = rows, !.before = rows]
    /\ server = ServerIdle
    /\ handler = HandlerIdle
    /\ client = ClientIdle
    /\ cmp = CmpIdle
    /\ sgn = SgnIdle
    /\ trk = TrkIdle
    /\ mrg = MrgIdle
    /\ syn = SynIdle
    /\ wire = WireIdle
    /\ txn = TxnIdle
    /\ app = AppIdle

\* models.py 481-614: the operation is performed on the rows of the session
\* with the objects of the container
PPerform(op, payload) ==
    /\ prf.n < MaxPerform
    /\ LET res == perform_async(prf.rows, op, payload)
       IN  prf' = [n |-> prf.n + 1, before |-> prf.rows, op |-> op,
                   payload |-> payload, rows |-> res.rows,
                   took |-> res.took, err |-> res.err]
    /\ UNCHANGED prfOthers

PrfNext == \E op \in PerformOps, payload \in Stores : PPerform(op, payload)

SpecPerform == PrfInit /\ [][PrfNext]_vars

\* the row the last operation names, before it was performed, and the
\* object the container holds for it
PObj == prf.before[prf.op.row]
PPullObj == prf.payload[prf.op.row]

\* C32: applying an operation whose effect is already there is no error
\* and changes nothing: an insert of a row that exists with the same values
\* and a delete of an absent row leave the store as it was and return no
\* object; an insert of a row that exists with other values raises
\* OperationError; an update of an absent row creates the row from the
\* payload.
C32_PerformIdempotent ==
    (prf.n > 0 /\ prf.op.ct = CtA) =>
        /\ (prf.op.cmd = "i" /\ PObj # Absent /\ PObj = PPullObj) =>
              (prf.rows = prf.before /\ ~prf.took /\ ~prf.err)
        /\ (prf.op.cmd = "d" /\ PObj = Absent) =>
              (prf.rows = prf.before /\ ~prf.took /\ ~prf.err)
        /\ (prf.op.cmd = "i" /\ PObj # Absent /\ PObj # PPullObj) =>
              (prf.err /\ prf.rows = prf.before)
        /\ (prf.op.cmd = "u" /\ PObj = Absent /\ PPullObj # Absent) =>
              /\ ~prf.err /\ prf.took
              /\ prf.rows = [prf.before EXCEPT ![prf.op.row] = PPullObj]

\* the second operation performed was a delete of an absent row, on a store
\* that holds another row, and left the store as it was
C32_Witness ==
    /\ prf.n = MaxPerform
    /\ prf.op.ct = CtA
    /\ prf.op.cmd = "d"
    /\ PObj = Absent
    /\ prf.rows = prf.before
    /\ \E r \in RowIds : prf.rows[r] # Absent

----------------------------------------------------------------------------
(* The push message a client node builds (Spec)                            *)

\* the node waits for the answer to the message it built and has not
\* edited its rows since
Built(c) == client[c].pc = "wait" /\ client[c].quiet

----------------------------------------------------------------------------
(* Writes the tracker does not see (SpecTrack)                             *)

\* C34: no write made through an internal session (the sessions of merge,
\* register and the log flush) and no write made while listening is
\* disabled ever queues or logs an Operation: the writes of a merge leave
\* no tracked operation behind.
C34_InternalUntracked ==
    LET queued == {trk.queue[k].id : k \in DOMAIN trk.queue}
        logged == {trk.log[k].id : k \in DOMAIN trk.log}
    IN  \A id \in trk.hidden : id \notin queued \cup logged

\* with listeners installed, a write of an internal session and a tracked
\* write of the application have both committed
C34_Witness ==
    /\ trk.listeners > 0
    /\ trk.listening
    /\ \E id \in trk.hidden : id \in trk.committed
    /\ \E k \in DOMAIN trk.log : trk.log[k].id \in trk.committed

----------------------------------------------------------------------------
(* The order of rows under compress (SpecCompress)                         *)

\* the unversioned operations of row r1 all precede those of row r2
Precedes(log, r1, r2) ==
    \A a \in RowPositions(log, r1) : \A b \in RowPositions(log, r2) : a < b

----------------------------------------------------------------------------
(* SpecTxn: procedures run under core.with_transaction (merge, register)   *)
(* on a database of one of the dialects.  In txn, fk tells whether the     *)
(* connection enforces foreign keys (1) or not (0), rows is the committed  *)
(* store, and last describes the call made last: fk before it, whether the *)
(* procedure raised, and what became of the session.                       *)

MaxCalls == 2         \* calls of procedures under with_transaction

NoState == 2          \* the state begin_transaction returns as None

txnOthers == <<server, handler, cmp, sgn, client, trk, mrg, syn, wire, prf, app>>

Dialects == {"sqlite", "mysql", "postgresql", "other"}

\* dialects.begin_transaction: the state it returns and the enforcement it
\* leaves on the connection.  SET CONSTRAINTS ALL DEFERRED of postgresql
\* ends with the transaction and changes nothing outside of it
begin_transaction(dialect, fk) ==
    CASE dialect = "sqlite" -> [state |-> fk, fk |-> 0]
      [] dialect = "mysql" -> [state |-> NoState, fk |-> 0]
      [] OTHER -> [state |-> NoState, fk |-> fk]

\* dialects.end_transaction: the enforcement it leaves on the connection
end_transaction(dialect, state, fk) ==
    IF dialect = "sqlite"
    THEN (IF state \notin {0, 1} THEN 1 ELSE state)
    ELSE fk

\* the function with_transaction wraps around a procedure that writes v to
\* row r and then returns or raises
wrapped(t, r, v, raises) ==
    LET begun == begin_transaction(t.dialect, t.fk)
        session == [t.rows EXCEPT ![r] = v]
    IN  [t EXCEPT
           !.n = @ + 1,
           !.rows = IF raises THEN @ ELSE session,
           !.fk = end_transaction(t.dialect, begun.state, begun.fk),
           !.last = [fk |-> t.fk, raised |-> raises, committed |-> ~raises,
                     rolled |-> raises, closed |-> TRUE]]

TxnInit ==
    /\ \E dialect \in Dialects, fk \in {0, 1}, rows \in Stores :
          txn = [TxnIdle EXCEPT !.dialect = dialect, !.fk = fk, !.rows = rows]
    /\ server = ServerIdle
    /\ handler = HandlerIdle
    /\ client = ClientIdle
    /\ cmp = CmpIdle
    /\ sgn = SgnIdle
    /\ trk = TrkIdle
    /\ mrg = MrgIdle
    /\ syn = SynIdle
    /\ wire = WireIdle
    /\ prf = PrfIdle
    /\ app = AppIdle

\* a procedure is called through with_transaction
TxCall(r, v, raises) ==
    /\ txn.n < MaxCalls
    /\ txn' = wrapped(txn, r, v, raises)
    /\ UNCHANGED txnOthers

TxnNext ==
    \E r \in RowIds, v \in Vals \cup {Absent}, raises \in BOOLEAN : TxCall(r, v, raises)

SpecTxn == TxnInit /\ [][TxnNext]_vars

\* C36: for every procedure run under with_transaction, whether it returns
\* or raises, foreign-key enforcement after the call is in the state it
\* was in before the call, the session is closed, and the transaction was
\* committed exactly when the procedure returned and rolled back exactly
\* when it raised.
C36_TransactionFrame ==
    txn.n > 0 =>
        /\ txn.fk = txn.last.fk
        /\ txn.last.closed
        /\ txn.last.committed <=> ~txn.last.raised
        /\ txn.last.rolled <=> txn.last.raised

----------------------------------------------------------------------------
(* What the client nodes take for pushed (Spec)                            *)

\* C37: whenever an operation of a client node carries version_id v as the
\* result of a push, and the node holds Version v, the committed state of
\* the server holds Version v: a node never marks operations as pushed for
\* a push whose transaction on the server was rolled back.
C37_MarkedOnlyIfCommitted ==
    \A c \in Clients :
        \A k \in DOMAIN client[c].log :
            client[c].log[k].ver # Null =>
                \E x \in server.versions : x.version_id = client[c].log[k].ver

\* C39: when synchronize returns after a push the server accepted, every
\* operation the push message carried has a version_id on the client, also
\* when the server answered new_version_id null.
C39_AcceptedPushMarksAll ==
    [][\A c \in Clients :
          (/\ client[c].pc = "wait"
           /\ client'[c].pc = "idle"
           /\ client'[c].out = "returned") =>
              \A j \in DOMAIN client[c].msg.ops :
                  \A k \in DOMAIN client'[c].log :
                      client'[c].log[k].order = client[c].msg.ops[j].order =>
                          client'[c].log[k].ver # Null]_vars

----------------------------------------------------------------------------
(* SpecDirect: transactions of the application on the server database.     *)
(* A session flushes mutations of tracked rows, the listeners of           *)
(* dbsync.server.tracking run at the flush, and the session commits or     *)
(* rolls back.  In app, rows is the store as the open transaction sees it, *)
(* held the version ids the listeners gave during the open transaction,    *)
(* rolled those given during transactions that were rolled back.           *)

appOthers == <<handler, cmp, sgn, client, trk, mrg, syn, wire, prf, txn>>

DirectInit ==
    /\ \E s \in Stores, k \in 0 .. 1 :
          /\ k = 0 <=> s = EmptyStore
          /\ server = PastServer(s, k)
          /\ app = [AppIdle EXCEPT !.rows = s]
    /\ handler = HandlerIdle
    /\ client = ClientIdle
    /\ cmp = CmpIdle
    /\ sgn = SgnIdle
    /\ trk = TrkIdle
    /\ mrg = MrgIdle
    /\ syn = SynIdle
    /\ wire = WireIdle
    /\ prf = PrfIdle
    /\ txn = TxnIdle

\* the session of the application flushes an insert, update or delete of
\* row r: after_insert, after_update or after_delete calls the listener,
\* which session_committing gives a session of its own and commits
DFlush(r, command, v, skip) ==
    /\ server.seq < MaxVersion
    /\ CASE command = "i" -> app.rows[r] = Absent
         [] command = "u" -> app.rows[r] \notin {Absent, v}
         [] OTHER -> app.rows[r] # Absent
    /\ server' = listener(server, r, command, skip)
    /\ app' = [app EXCEPT
                 !.open = TRUE,
                 !.rows[r] = IF command = "d" THEN Absent ELSE v,
                 !.held = IF skip THEN @ ELSE @ \cup {server.seq + 1}]
    /\ UNCHANGED appOthers

\* the session of the application commits
DCommit ==
    /\ app.open
    /\ server' = [server EXCEPT !.rows = app.rows]
    /\ app' = [app EXCEPT !.open = FALSE, !.held = {}]
    /\ UNCHANGED appOthers

\* the session of the application rolls back
DRollback ==
    /\ app.open
    /\ app' = [app EXCEPT !.open = FALSE, !.rows = server.rows, !.held = {},
                          !.rolled = @ \cup app.held]
    /\ UNCHANGED <<server, handler, cmp, sgn, client, trk, mrg, syn, wire, prf, txn>>

DirectNext ==
    \/ \E r \in RowIds, command \in {"i", "u", "d"}, v \in Vals, skip \in BOOLEAN :
          DFlush(r, command, v, skip)
    \/ DCommit
    \/ DRollback

SpecDirect == DirectInit /\ [][DirectNext]_vars

\* C38: a direct edit of a tracked row leaves an Operation and its Version
\* in the log of the server only if the transaction that made the edit
\* commits: an edit that was flushed and then rolled back leaves no
\* Operation and no Version.
C38_RolledBackUntracked ==
    \A id \in app.rolled :
        /\ \A x \in server.versions : x.version_id # id
        /\ \A k \in DOMAIN server.ops : server.ops[k].ver # id

----------------------------------------------------------------------------
(* What a return of synchronize tells (SpecSync)                           *)

\* C40: if synchronize returns to its caller without raising, its last
\* push attempt was accepted by the server; when every round ended with
\* PullSuggested or a serialization error it raises.
C40_ReturnMeansAccepted ==
    (syn.pc = "done" /\ syn.out # "raised") =>
        syn.last = [kind |-> "push", exc |-> NoExc]

====
